---- MODULE Spec2Model ----
(***************************************************************************)
(* A model of PoolSync (Mantle): the concentrated-liquidity tick / bitmap  *)
(* accounting of pools/pool_structures/v3_structure.rs, the reserve sync   *)
(* of v2_structure.rs and the checkpointed driver loop of pool_sync.rs.    *)
(***************************************************************************)
EXTENDS Integers, Sequences, FiniteSets, TLC

(***************************************************************************)
(* Bounds of the model.                                                    *)
(***************************************************************************)
\* u128 / i128 are modelled with LiqBits bits (two's complement kept).
LiqBits == 3
\* Number of mutation events replayed against one pool in a behaviour.
MaxEvents == 3

\* Tick ranges <<lower, upper>> of the positions that are minted and burned:
\* below, around and above the ticks a swap moves the price to, sharing
\* boundary ticks, one in another bitmap word, one with lower = upper.
Ranges == { <<-256, -2>>, <<-2, 2>>, <<0, 2>>, <<2, 2>> }
TickSet == { r[1] : r \in Ranges } \cup { r[2] : r \in Ranges }
\* Tick spacings a pool is created with.
Spacings == {1, 2}
\* Post-swap values reported by Swap events: tick, sqrtPriceX96, liquidity.
SwapValues == { <<-2, 1, 0>>, <<0, 2, 1>>, <<2, 3, 2>> }

VARIABLES
    pool,             \* the UniswapV3Pool record being updated
    overflow_checks,  \* build profile: TRUE panics on overflow, FALSE wraps
    panicked,         \* the process died in a panic
    initial_sync,     \* the is_initial_sync flag the pool's logs are replayed with
    nEvents,          \* number of events replayed so far
    last_log,         \* the log that was replayed last (history)
    v2pool,           \* the MerchantMoeV2Pool record being updated
    head,             \* the chain's current block number
    disk,             \* the persisted cache file of each pool type
    cfg,              \* the PoolSync of the run: fetchers, start_block, end_block
    pc,               \* where sync_pools is
    pool_caches,      \* sync_pools: the caches loaded for the run
    fully_synced,     \* sync_pools: local of the driving loop
    last_synced_block,\* sync_pools: local returned as second component
    end_block,        \* sync_pools: the end block resolved in the current round
    idx,              \* sync_pools: position of `for cache in &mut pool_caches`
    ret,              \* what the last completed run returned
    runs,             \* number of runs started (history)
    round_work,       \* per round of the run: has a protocol been synced in it (history)
    completed,        \* configuration and head of each completed run (history)
    replays,          \* the populate_liquidity calls of the last protocol round (history)
    bp_pc,            \* where build_pools is
    bp_type,          \* build_pools: the pool_type argument
    addresses,        \* build_pools: the addresses argument
    retry_count,      \* build_pools: local
    backoff,          \* build_pools: local
    sleep_duration,   \* build_pools: the duration slept last
    outcomes,         \* what each call of populate_pool_data met (history)
    bp_ret,           \* what build_pools returned
    unpopulated,      \* addresses whose bulk read was given up on (history)
    io_failure,       \* the cache file operation that failed, and in which run (history)
    builder,          \* the PoolSyncBuilder
    built,            \* what PoolSyncBuilder::build returned
    processed         \* per pool type: the blocks its cache has been synced over, in
                      \* memory and on disk, and its syncs in the run (history)

v3vars == <<pool, overflow_checks, panicked, initial_sync, nEvents, last_log>>
v2vars == <<v2pool>>
syncvars == <<head, disk, cfg, pc, pool_caches, fully_synced, last_synced_block,
              end_block, idx, ret, runs, round_work, completed, replays>>
buildvars == <<bp_pc, bp_type, addresses, retry_count, backoff, sleep_duration, outcomes, bp_ret>>
histvars == <<unpopulated, io_failure, processed>>
buildervars == <<builder, built>>
vars == <<v3vars, v2vars, syncvars, buildvars, histvars, buildervars>>

(***************************************************************************)
(* Fixed-width integers.                                                   *)
(***************************************************************************)
U128Mod == 2 ^ LiqBits
U128Max == U128Mod - 1
I128Max == (2 ^ (LiqBits - 1)) - 1
I128Min == -(2 ^ (LiqBits - 1))

\* `x as i128` of a u128
as_i128(x) == IF x > I128Max THEN x - U128Mod ELSE x
\* `x as u128` of an i128
as_u128(x) == IF x < 0 THEN x + U128Mod ELSE x
\* an out-of-range mathematical result kept in i128 (two's complement)
wrap_i128(x) == as_i128(x % U128Mod)

\* The arithmetic of the code: v is the wrapped result, of tells overflow
\* (a panic when the build checks overflow, the wrapped value otherwise).
neg_i128(x) == [v |-> wrap_i128(-x), of |-> (x = I128Min)]
add_i128(a, b) == [v |-> wrap_i128(a + b), of |-> (a + b > I128Max \/ a + b < I128Min)]
sub_i128(a, b) == [v |-> wrap_i128(a - b), of |-> (a - b > I128Max \/ a - b < I128Min)]
add_u128(a, b) == [v |-> (a + b) % U128Mod, of |-> (a + b > U128Max)]
sub_u128(a, b) == [v |-> (a - b) % U128Mod, of |-> (b > a)]

\* i32 division of Rust: the quotient is rounded toward zero
div_i32(a, b) == IF a >= 0 THEN a \div b ELSE -((-a) \div b)
\* i32 remainder of Rust: the sign of the dividend
rem_i32(a, b) == a - b * div_i32(a, b)
\* `x as i16` of an i32
as_i16(x) == LET m == x % 65536 IN IF m >= 32768 THEN m - 65536 ELSE m
\* `x as u8` of an i32
as_u8(x) == x % 256
\* `x >> 8` of an i32 (arithmetic shift)
shr8(x) == x \div 256

(***************************************************************************)
(* v3_structure.rs                                                         *)
(***************************************************************************)
TickInfoDefault == [liquidity_net |-> 0, initialized |-> FALSE, liquidity_gross |-> 0]

\* HashMap::insert and HashMap::remove on a map held as a function
MapPut(m, k, v) == [x \in (DOMAIN m) \cup {k} |-> IF x = k THEN v ELSE m[x]]
MapRemove(m, k) == [x \in (DOMAIN m) \ {k} |-> m[x]]

\* Mutant: the word index is tick / 256 rounded toward zero, not tick >> 8.
position_div(tick) == [word_pos |-> as_i16(div_i32(tick, 256)), bit_pos |-> as_u8(rem_i32(tick, 256))]
\* uniswap_v3_math::tick_bitmap::position
position(tick) == [word_pos |-> as_i16(shr8(tick)), bit_pos |-> as_u8(rem_i32(tick, 256))]

\* A U256 word is held as the set of its set bits: `^ mask` toggles one bit.
XorBit(word, bit) == IF bit \in word THEN word \ {bit} ELSE word \cup {bit}

\* Mutant: the bit is set (`|= mask`), never cleared.
flip_tick_or(p, tick, tick_spacing) ==
    LET pos == position(div_i32(tick, tick_spacing))
    IN  IF pos.word_pos \in DOMAIN p.tick_bitmap
        THEN [p EXCEPT !.tick_bitmap[pos.word_pos] = @ \cup {pos.bit_pos}]
        ELSE [p EXCEPT !.tick_bitmap = MapPut(@, pos.word_pos, {pos.bit_pos})]

flip_tick(p, tick, tick_spacing) ==
    LET pos == position(div_i32(tick, tick_spacing))
    IN  IF pos.word_pos \in DOMAIN p.tick_bitmap
        THEN [p EXCEPT !.tick_bitmap[pos.word_pos] = XorBit(@, pos.bit_pos)]
        ELSE [p EXCEPT !.tick_bitmap = MapPut(@, pos.word_pos, {pos.bit_pos})]

\* `before - (-delta) as u128` for a negative delta, `before + delta as u128`
\* otherwise (the gross liquidity of a tick, the liquidity of the pool)
apply_delta(before, liquidity_delta) ==
    IF liquidity_delta < 0
    THEN LET neg == neg_i128(liquidity_delta)
             r == sub_u128(before, as_u128(neg.v))
         IN  [v |-> r.v, of |-> (r.of \/ neg.of)]
    ELSE add_u128(before, as_u128(liquidity_delta))

\* Mutant: the delta is added to the net liquidity of an upper tick too.
update_info_net_added(info, liquidity_delta, upper) ==
    LET gross == apply_delta(info.liquidity_gross, liquidity_delta)
        net == add_i128(info.liquidity_net, liquidity_delta)
    IN  [info |-> [liquidity_net |-> net.v,
                   initialized |-> (info.initialized \/ info.liquidity_gross = 0),
                   liquidity_gross |-> gross.v],
         flipped |-> ((gross.v = 0) # (info.liquidity_gross = 0)),
         of |-> (gross.of \/ net.of)]

\* Mutant: `initialized` is not set when the gross liquidity leaves zero.
update_info_no_init(info, liquidity_delta, upper) ==
    LET gross == apply_delta(info.liquidity_gross, liquidity_delta)
        net == IF upper
               THEN sub_i128(info.liquidity_net, liquidity_delta)
               ELSE add_i128(info.liquidity_net, liquidity_delta)
    IN  [info |-> [liquidity_net |-> net.v,
                   initialized |-> info.initialized,
                   liquidity_gross |-> gross.v],
         flipped |-> ((gross.v = 0) # (info.liquidity_gross = 0)),
         of |-> (gross.of \/ net.of)]

\* The body of update_tick on the TickInfo it has looked up or inserted.
update_info(info, liquidity_delta, upper) ==
    LET gross == apply_delta(info.liquidity_gross, liquidity_delta)
        net == IF upper
               THEN sub_i128(info.liquidity_net, liquidity_delta)
               ELSE add_i128(info.liquidity_net, liquidity_delta)
    IN  [info |-> [liquidity_net |-> net.v,
                   initialized |-> (info.initialized \/ info.liquidity_gross = 0),
                   liquidity_gross |-> gross.v],
         flipped |-> ((gross.v = 0) # (info.liquidity_gross = 0)),
         of |-> (gross.of \/ net.of)]

\* Returns the pool, whether the tick flipped (the return value of the
\* code), and whether the arithmetic overflowed.
update_tick(p, tick, liquidity_delta, upper) ==
    LET r == update_info(IF tick \in DOMAIN p.ticks THEN p.ticks[tick] ELSE TickInfoDefault,
                         liquidity_delta, upper)
    IN  [pool |-> [p EXCEPT !.ticks = MapPut(@, tick, r.info)],
         flipped |-> r.flipped,
         of |-> r.of]

\* `if flipped { flip_tick(pool, tick, pool.tick_spacing) }`
flip_if(flipped, p, tick) == IF flipped THEN flip_tick(p, tick, p.tick_spacing) ELSE p
\* Mutant: the entry of a tick that flipped to zero is kept.
remove_never(flipped, p, tick) == p
\* `if flipped { pool.ticks.remove(&tick) }`
remove_if(flipped, p, tick) == IF flipped THEN [p EXCEPT !.ticks = MapRemove(@, tick)] ELSE p

update_position(p, tick_lower, tick_upper, liquidity_delta) ==
    IF liquidity_delta = 0
    THEN [pool |-> p, of |-> FALSE]
    ELSE LET lower == update_tick(p, tick_lower, liquidity_delta, FALSE)
             upper == update_tick(lower.pool, tick_upper, liquidity_delta, TRUE)
         IN  [pool |-> remove_if(liquidity_delta < 0 /\ upper.flipped,
                           remove_if(liquidity_delta < 0 /\ lower.flipped,
                               flip_if(upper.flipped,
                                   flip_if(lower.flipped, upper.pool, tick_lower),
                                   tick_upper),
                               tick_lower),
                           tick_upper),
              of |-> (lower.of \/ upper.of)]

\* Mutant: the upper tick of the range counts as in range.
adjust_liquidity_upper_inclusive(pos, tick_lower, tick_upper, liquidity_delta, is_initial_sync) ==
    IF liquidity_delta # 0 /\ ~is_initial_sync
       /\ pos.pool.tick >= tick_lower /\ pos.pool.tick <= tick_upper
    THEN LET liq == apply_delta(pos.pool.liquidity, liquidity_delta)
         IN  [pool |-> [pos.pool EXCEPT !.liquidity = liq.v], of |-> (pos.of \/ liq.of)]
    ELSE pos

\* Mutant: the liquidity step is not gated by is_initial_sync.
adjust_liquidity_always(pos, tick_lower, tick_upper, liquidity_delta, is_initial_sync) ==
    IF liquidity_delta # 0
       /\ pos.pool.tick >= tick_lower /\ pos.pool.tick < tick_upper
    THEN LET liq == apply_delta(pos.pool.liquidity, liquidity_delta)
         IN  [pool |-> [pos.pool EXCEPT !.liquidity = liq.v], of |-> (pos.of \/ liq.of)]
    ELSE pos

\* The liquidity step of modify_position on the result of update_position.
adjust_liquidity(pos, tick_lower, tick_upper, liquidity_delta, is_initial_sync) ==
    IF liquidity_delta # 0 /\ ~is_initial_sync
       /\ pos.pool.tick >= tick_lower /\ pos.pool.tick < tick_upper
    THEN LET liq == apply_delta(pos.pool.liquidity, liquidity_delta)
         IN  [pool |-> [pos.pool EXCEPT !.liquidity = liq.v], of |-> (pos.of \/ liq.of)]
    ELSE pos

modify_position(p, tick_lower, tick_upper, liquidity_delta, is_initial_sync) ==
    adjust_liquidity(update_position(p, tick_lower, tick_upper, liquidity_delta),
                     tick_lower, tick_upper, liquidity_delta, is_initial_sync)

process_mint(p, log, is_initial_sync) ==
    modify_position(p, log.tickLower, log.tickUpper, as_i128(log.amount), is_initial_sync)

process_burn(p, log, is_initial_sync) ==
    LET neg == neg_i128(as_i128(log.amount))
        r == modify_position(p, log.tickLower, log.tickUpper, neg.v, is_initial_sync)
    IN  [pool |-> r.pool, of |-> (r.of \/ neg.of)]

process_swap_keep_liquidity(p, log) ==
    [p EXCEPT !.tick = log.tick, !.sqrt_price = log.sqrtPriceX96]

process_swap(p, log) ==
    [p EXCEPT !.tick = log.tick, !.sqrt_price = log.sqrtPriceX96, !.liquidity = log.liquidity]

process_tick_data(p, log, is_initial_sync) ==
    IF log.kind = "Burn" THEN process_burn(p, log, is_initial_sync)
    ELSE IF log.kind = "Mint" THEN process_mint(p, log, is_initial_sync)
    ELSE IF log.kind = "Swap" THEN [pool |-> process_swap(p, log), of |-> FALSE]
    ELSE [pool |-> p, of |-> FALSE]

(***************************************************************************)
(* Replay of Mint / Burn / Swap logs against one concentrated-liquidity    *)
(* pool (process_tick_data driven log by log).                             *)
(***************************************************************************)
NewV3Pool(spacing, liquidity) ==
    [address |-> "X", token0 |-> "A", token1 |-> "B",
     token0_name |-> "", token1_name |-> "",
     token0_decimals |-> 18, token1_decimals |-> 18,
     liquidity |-> liquidity, sqrt_price |-> 1, fee |-> 3000,
     tick |-> 0, tick_spacing |-> spacing,
     tick_bitmap |-> <<>>, ticks |-> <<>>]

NoLog == [kind |-> "None"]
MintLog(lo, hi, a) == [kind |-> "Mint", tickLower |-> lo, tickUpper |-> hi, amount |-> a]
BurnLog(lo, hi, a) == [kind |-> "Burn", tickLower |-> lo, tickUpper |-> hi, amount |-> a]
SwapLog(v) == [kind |-> "Swap", tick |-> v[1], sqrtPriceX96 |-> v[2], liquidity |-> v[3]]

\* Amounts of the Mint and Burn logs a pool emits: non-negative i128 deltas.
Amounts == 0 .. I128Max

\* The logs replayed are those of a pool contract: their boundary ticks are
\* multiples of the tick spacing (checkTicks has run on chain), and the tick
\* arithmetic of update_tick does not overflow on them: a burn never takes
\* more than the gross liquidity a boundary tick holds when it is updated.
TickAligned(p, log) ==
    /\ log.tickLower % p.tick_spacing = 0
    /\ log.tickUpper % p.tick_spacing = 0
    /\ log.tickLower <= log.tickUpper

TickArithmeticOk(p, log) ==
    LET neg == neg_i128(as_i128(log.amount))
        delta == IF log.kind = "Burn" THEN neg.v ELSE as_i128(log.amount)
    IN  ~neg.of /\ ~update_position(p, log.tickLower, log.tickUpper, delta).of

(***************************************************************************)
(* Constant-product pools (v2_structure.rs).                               *)
(***************************************************************************)
\* No constant-product pool is being updated.
NoV2Pool == [address |-> "none"]

NewV2Pool(decimals, reserve0, reserve1) ==
    [address |-> "Y", token0 |-> "A", token1 |-> "B",
     token0_name |-> "", token1_name |-> "",
     token0_decimals |-> decimals, token1_decimals |-> 18,
     token0_reserves |-> reserve0, token1_reserves |-> reserve1]

SyncLog(reserve0, reserve1) == [kind |-> "Sync", reserve0 |-> reserve0, reserve1 |-> reserve1]

\* Mutant: the two reserves are stored crosswise.
process_sync_data_swapped(p, log) ==
    [p EXCEPT !.token0_reserves = log.reserve1, !.token1_reserves = log.reserve0]

process_sync_data(p, log) ==
    [p EXCEPT !.token0_reserves = log.reserve0, !.token1_reserves = log.reserve1]

(***************************************************************************)
(* The chain, the remote reads and the cache files the driver works on.    *)
(***************************************************************************)
\* Highest block number of the chain and of a configured start or end block.
MaxBlock == 3
\* Number of runs of sync_pools in a behaviour.
MaxRuns == 2

\* Option<u64>
None == <<>>
Some(x) == <<x>>
is_some(o) == Len(o) = 1
unwrap(o) == o[1]

\* PoolType::is_v3
is_v3(pool_type) == pool_type \in {"UniswapV3", "Agni"}

CreatedLog(pool_type, address, tick_spacing) ==
    [kind |-> "PoolCreated", pool_type |-> pool_type, address |-> address, tick_spacing |-> tick_spacing]
\* A mutation log as emitted by the pool at `address`.
On(address, log) == log @@ [address |-> address]

\* The chain's history, block by block, logs in log order: a concentrated
\* liquidity pool X and a constant-product pool Y are created, X gets an
\* in-range mint, a swap and a burn, Y reserve syncs, and a second
\* concentrated liquidity pool Z is created later.
ChainLogs ==
    << << CreatedLog("UniswapV3", "X", 2), CreatedLog("MerchantMoe", "Y", 0) >>,
       << On("X", MintLog(-2, 2, 1)), On("X", SwapLog(<<0, 2, 1>>)),
          On("Y", SyncLog(1, 2)), CreatedLog("UniswapV3", "Z", 1) >>,
       << On("X", BurnLog(-2, 2, 1)), On("Y", SyncLog(2, 1)) >> >>
LogsOf(b) == IF b \in 1 .. Len(ChainLogs) THEN ChainLogs[b] ELSE <<>>

Min(a, b) == IF a <= b THEN a ELSE b

\* The logs of blocks from .. to, in order.
RECURSIVE LogsIn(_, _)
LogsIn(from, to) == IF from > to THEN <<>> ELSE LogsOf(from) \o LogsIn(from + 1, to)

\* One log folded into a pool record by the updater of its family.
apply_log(pool_type, p, log, is_initial_sync) ==
    IF log.address # p.address \/ log.kind = "PoolCreated" THEN [pool |-> p, of |-> FALSE]
    ELSE IF is_v3(pool_type) THEN process_tick_data(p, log, is_initial_sync)
    ELSE IF log.kind = "Sync" THEN [pool |-> process_sync_data(p, log), of |-> FALSE]
    ELSE [pool |-> p, of |-> FALSE]

or_of(r, of) == [pool |-> r.pool, of |-> (r.of \/ of)]

RECURSIVE replay_from(_, _, _, _, _)
replay_from(pool_type, r, logs, k, is_initial_sync) ==
    IF k > Len(logs) THEN r
    ELSE replay_from(pool_type, or_of(apply_log(pool_type, r.pool, logs[k], is_initial_sync), r.of),
                     logs, k + 1, is_initial_sync)

\* The log that created the pool at `address`.
CreationOf(address) ==
    CHOOSE log \in UNION { { ChainLogs[b][k] : k \in DOMAIN ChainLogs[b] } : b \in DOMAIN ChainLogs } :
        log.kind = "PoolCreated" /\ log.address = address

\* The pool contract's own state at block h.
OnChain(address, h) ==
    LET c == CreationOf(address)
    IN  replay_from(c.pool_type,
                    [pool |-> IF is_v3(c.pool_type)
                              THEN [NewV3Pool(c.tick_spacing, 0) EXCEPT !.address = address]
                              ELSE [NewV2Pool(18, 0, 0) EXCEPT !.address = address],
                     of |-> FALSE],
                    LogsIn(1, h), 1, FALSE).pool

\* The record built from the bulk read of a pool: the contract's fields at
\* the current head, tick map and bitmap left at their defaults.
from_bulk_read(pool_type, p) ==
    IF is_v3(pool_type) THEN [p EXCEPT !.ticks = <<>>, !.tick_bitmap = <<>>] ELSE p
BulkRead(pool_type, address, h) == from_bulk_read(pool_type, OnChain(address, h))

\* Rpc::fetch_pool_addrs: the pools of the type created in start .. end.
fetch_pool_addrs(start_block, to_block, pool_type, h) ==
    LET created(log) == log.kind = "PoolCreated" /\ log.pool_type = pool_type
        logs == SelectSeq(LogsIn(start_block, Min(to_block, h)), created)
    IN  [k \in DOMAIN logs |-> logs[k].address]

\* Rpc::populate_pools
populate_pools(pool_addrs, pool_type, h) ==
    [k \in DOMAIN pool_addrs |-> BulkRead(pool_type, pool_addrs[k], h)]

\* Rpc::populate_liquidity: the logs of start .. end replayed on the pools.
populate_liquidity(start_block, to_block, pools, pool_type, is_initial_sync, h) ==
    LET rs == [k \in DOMAIN pools |->
                  replay_from(pool_type, [pool |-> pools[k], of |-> FALSE],
                              LogsIn(start_block, Min(to_block, h)), 1, is_initial_sync)]
    IN  [pools |-> [k \in DOMAIN pools |-> rs[k].pool], of |-> (\E k \in DOMAIN pools : rs[k].of)]

\* The cache files: none is on disk until a run has written it.
NoFile == [pool_type |-> "none"]
\* read_cache_file: the empty initial form when there is no file.
read_cache_file(files, pool_type) ==
    IF files[pool_type] = NoFile
    THEN [pool_type |-> pool_type, pools |-> <<>>, last_synced_block |-> 0, is_initial_sync |-> TRUE]
    ELSE files[pool_type]
\* write_cache_file
write_cache_file(files, cache) == [files EXCEPT ![cache.pool_type] = cache]
RECURSIVE write_all(_, _, _)
write_all(files, caches, k) ==
    IF k > Len(caches) THEN files ELSE write_all(write_cache_file(files, caches[k]), caches, k + 1)

(***************************************************************************)
(* sync_pools (pool_sync.rs).                                              *)
(***************************************************************************)
PoolTypes == {"UniswapV3", "MerchantMoe"}
\* The fetchers a PoolSync is built with, in the order its map yields them.
FetcherSets == { <<"UniswapV3">>, <<"MerchantMoe">>, <<"UniswapV3", "MerchantMoe">> }
OptBlocks == {None} \cup { Some(b) : b \in 1 .. MaxBlock }
NoCfg == [fetchers |-> <<>>, start_block |-> None, end_block |-> None]
NoReplays == <<>>

\* `let end_block = match self.end_block`
resolve_end_block(cfg_end_block, h) == IF is_some(cfg_end_block) THEN unwrap(cfg_end_block) ELSE h

\* Mutant: the range starts at the checkpoint itself.
resolve_start_block_at_checkpoint(cache, cfg_start_block) ==
    IF is_some(cfg_start_block)
    THEN IF cache.last_synced_block < unwrap(cfg_start_block)
         THEN unwrap(cfg_start_block)
         ELSE cache.last_synced_block
    ELSE cache.last_synced_block
\* Mutant: a configured start block is used whatever the checkpoint.
resolve_start_block_override(cache, cfg_start_block) ==
    IF is_some(cfg_start_block) THEN unwrap(cfg_start_block) ELSE cache.last_synced_block + 1
\* `let start_block = match self.start_block`
resolve_start_block(cache, cfg_start_block) ==
    IF is_some(cfg_start_block)
    THEN IF cache.last_synced_block < unwrap(cfg_start_block)
         THEN unwrap(cfg_start_block)
         ELSE cache.last_synced_block + 1
    ELSE cache.last_synced_block + 1

\* Mutant: a cache is synced whatever its start block.
needs_sync_always(start_block, to_block) == TRUE
\* Mutant: off by one, the last block is not synced.
needs_sync_strict(start_block, to_block) == start_block < to_block
\* `if start_block <= end_block`
needs_sync(start_block, to_block) == start_block <= to_block

\* Mutant: the round does not record that it did work.
mark_work_keep(synced) == synced
\* `fully_synced = false` of a protocol that is synced in the round
mark_work(synced) == FALSE

\* Mutant: the checkpoint of the cache is left as it is.
finish_round_keep_checkpoint(cache, pools, to_block) ==
    [cache EXCEPT !.pools = pools, !.is_initial_sync = FALSE]
\* Mutant: the initial-sync flag of the cache is left as it is.
finish_round_keep_flag(cache, pools, to_block) ==
    [cache EXCEPT !.pools = pools, !.last_synced_block = to_block]
\* merge old and new, update info for cache
finish_round(cache, pools, to_block) ==
    [cache EXCEPT !.pools = pools, !.last_synced_block = to_block, !.is_initial_sync = FALSE]

\* Mutant: the new pools are replayed a second time.
replay_new_twice(start_block, to_block, new_pools, pool_type, h) ==
    IF new_pools # <<>>
    THEN populate_liquidity(start_block, to_block,
             populate_liquidity(start_block, to_block, new_pools, pool_type, TRUE, h).pools,
             pool_type, TRUE, h)
    ELSE [pools |-> new_pools, of |-> FALSE]
\* update the new pools
replay_new(start_block, to_block, new_pools, pool_type, h) ==
    IF new_pools # <<>>
    THEN populate_liquidity(start_block, to_block, new_pools, pool_type, TRUE, h)
    ELSE [pools |-> new_pools, of |-> FALSE]

\* Mutant: the new pools are put before the cached ones.
merge_round_prepend(cache, old, new, to_block) ==
    [cache |-> finish_round(cache, new.pools \o old.pools, to_block),
     of |-> (old.of \/ new.of),
     replays |-> << [n |-> Len(cache.pools), is_initial_sync |-> cache.is_initial_sync] >>
                 \o (IF new.pools # <<>> THEN << [n |-> Len(new.pools), is_initial_sync |-> TRUE] >> ELSE <<>>)]
\* merge old and new
merge_round(cache, old, new, to_block) ==
    [cache |-> finish_round(cache, old.pools \o new.pools, to_block),
     of |-> (old.of \/ new.of),
     replays |-> << [n |-> Len(cache.pools), is_initial_sync |-> cache.is_initial_sync] >>
                 \o (IF new.pools # <<>> THEN << [n |-> Len(new.pools), is_initial_sync |-> TRUE] >> ELSE <<>>)]

\* The body of `if start_block <= end_block` for one cache.
sync_protocol(cache, start_block, to_block, h) ==
    merge_round(cache,
        populate_liquidity(start_block, to_block, cache.pools, cache.pool_type, cache.is_initial_sync, h),
        replay_new(start_block, to_block,
            populate_pools(fetch_pool_addrs(start_block, to_block, cache.pool_type, h), cache.pool_type, h),
            cache.pool_type, h),
        to_block)

\* populate_pools where build_pools may have given the batch up and returned
\* Ok(Vec::new()).
populate_pools_or_empty(pool_addrs, pool_type, h, exhausted) ==
    IF exhausted THEN <<>> ELSE populate_pools(pool_addrs, pool_type, h)

\* The body of `if start_block <= end_block` with that populate_pools.
sync_protocol_or_empty(cache, start_block, to_block, h, exhausted) ==
    merge_round(cache,
        populate_liquidity(start_block, to_block, cache.pools, cache.pool_type, cache.is_initial_sync, h),
        replay_new(start_block, to_block,
            populate_pools_or_empty(fetch_pool_addrs(start_block, to_block, cache.pool_type, h),
                                    cache.pool_type, h, exhausted),
            cache.pool_type, h),
        to_block)

\* `pool_caches.iter().all(|cache| cache.last_synced_block >= target_end_block)`
all_synced_to_target(caches, target) ==
    \A k \in DOMAIN caches : caches[k].last_synced_block >= target

RECURSIVE flat_pools(_, _)
flat_pools(caches, k) == IF k > Len(caches) THEN <<>> ELSE caches[k].pools \o flat_pools(caches, k + 1)

(***************************************************************************)
(* pools/pool_builder.rs: build_pools and populate_pool_data.              *)
(***************************************************************************)
INITIAL_BACKOFF == 1000
MAX_RETRIES == 5
\* The largest array a bulk read decodes to.
MaxTuples == 2
\* Address::ZERO and one other address.
ZERO == 0
Addresses == {ZERO, 1}
\* The jitter drawn from 0..=100: both ends.
Jitters == {0, 100}
\* The decimals a bulk read reports.
Decimals == 18

\* The leading fields of a decoded tuple, in the order of the pool type's
\* DynSolType: V3 (address, token0, token0_decimals, token1, ...),
\* V2 (address, token0, token1, token0_decimals, ...).
TuplesOf(pool_type) ==
    IF is_v3(pool_type)
    THEN { <<a, t0, Decimals, t1>> : a \in Addresses, t0 \in Addresses, t1 \in Addresses }
    ELSE { <<a, t0, t1, Decimals>> : a \in Addresses, t0 \in Addresses, t1 \in Addresses }

ArraysOf(pool_type) == UNION { [1 .. n -> TuplesOf(pool_type)] : n \in 0 .. MaxTuples }

\* UniswapV3Pool::from(&[DynSolValue]) and MerchantMoeV2Pool::from, under
\* PoolType::build_pool (data[k] is pool_data[k + 1]).
build_pool(pool_type, pool_data) ==
    IF is_v3(pool_type)
    THEN [pool_type |-> pool_type, address |-> pool_data[1], token0 |-> pool_data[2],
          token1 |-> pool_data[4], token0_name |-> "", token1_name |-> ""]
    ELSE [pool_type |-> pool_type, address |-> pool_data[1], token0 |-> pool_data[2],
          token1 |-> pool_data[3], token0_name |-> "", token1_name |-> ""]

is_valid_any(p) == p.address # ZERO \/ p.token0 # ZERO \/ p.token1 # ZERO

\* Pool::is_valid
is_valid(p) == p.address # ZERO /\ p.token0 # ZERO /\ p.token1 # ZERO

\* for pool_data_tuple in pool_data_arr { ... if pool.is_valid() { pools.push(pool) } }
RECURSIVE push_valid(_, _, _)
push_valid(pool_type, arr, k) ==
    IF k > Len(arr) THEN <<>>
    ELSE (IF is_valid(build_pool(pool_type, arr[k])) THEN << build_pool(pool_type, arr[k]) >> ELSE <<>>)
         \o push_valid(pool_type, arr, k + 1)

\* The two symbol() calls made for each pool pushed: which of them answer.
SymbolReads(n) == [1 .. n -> [symbol0 : BOOLEAN, symbol1 : BOOLEAN]]

\* What a call of populate_pool_data meets: the deployment call fails, the
\* returned bytes do not decode, or they decode to an array of tuples; and,
\* for every pool pushed, which of its symbol() calls answer.
Outcomes(pool_type) ==
    { [kind |-> "transport"], [kind |-> "decode"] }
    \cup UNION { { [kind |-> "decoded", array |-> arr, symbols |-> s] :
                     s \in SymbolReads(Len(push_valid(pool_type, arr, 1))) } :
                 arr \in ArraysOf(pool_type) }

\* for pool in &mut pools: the symbol() reads; a read that answers sets the
\* name, another leaves it.
fill_names(pools, symbols) ==
    [k \in DOMAIN pools |->
        [pools[k] EXCEPT !.token0_name = IF symbols[k].symbol0 THEN "SYM" ELSE @,
                         !.token1_name = IF symbols[k].symbol1 THEN "SYM" ELSE @]]

\* Mutant: a failed symbol() read is propagated as the error of the call.
populate_pool_data_strict(pool_type, outcome) ==
    IF outcome.kind = "decoded"
       /\ \A k \in DOMAIN outcome.symbols : outcome.symbols[k].symbol0 /\ outcome.symbols[k].symbol1
    THEN [ok |-> TRUE,
          pools |-> fill_names(push_valid(pool_type, outcome.array, 1), outcome.symbols)]
    ELSE [ok |-> FALSE, err |-> outcome.kind]

\* populate_pool_data: Err from the `?` of the deployment call or of
\* abi_decode_sequence, Ok(pools) otherwise.
populate_pool_data(pool_type, outcome) ==
    IF outcome.kind = "decoded"
    THEN [ok |-> TRUE,
          pools |-> fill_names(push_valid(pool_type, outcome.array, 1), outcome.symbols)]
    ELSE [ok |-> FALSE, err |-> outcome.kind]

\* The address lists build_pools is called with.
AddressLists == { <<1>>, <<1, 2>> }
\* `addresses.clone()`
clone(v) == [k \in DOMAIN v |-> v[k]]
\* One call `populate_pool_data(provider, addresses.clone(), ...)`: what it
\* met and the addresses it was given.
attempt(outcome, addrs) == outcome @@ [addresses |-> clone(addrs)]

\* Mutant: the base delay stays what it was.
constant_backoff(b) == b

\* backoff *= 2; // Exponential backoff
exponential_backoff(b) == b * 2

\* Mutant: build_pools never gives up.
give_up_never(count) == FALSE
give_up_late(count) == count > MAX_RETRIES

\* if retry_count >= MAX_RETRIES
give_up(count) == count >= MAX_RETRIES

NoRet == [ok |-> FALSE, err |-> "none"]

\* build_pools is not running.
IdleBuild ==
    /\ bp_pc = "off"
    /\ bp_type = "UniswapV3"
    /\ addresses = <<>>
    /\ retry_count = 0
    /\ backoff = INITIAL_BACKOFF
    /\ sleep_duration = 0
    /\ outcomes = <<>>
    /\ bp_ret = NoRet

(***************************************************************************)
(* builder.rs and chain.rs: PoolSyncBuilder.                               *)
(***************************************************************************)
\* enum PoolType, enum Chain
AllPoolTypes == {"UniswapV3", "MerchantMoe", "Agni"}
Chains == {"Mantle"}
\* static CHAIN_POOLS
CHAIN_POOLS == [c \in Chains |-> {"UniswapV3", "MerchantMoe", "Agni"}]

supported_none(c, pool_type) == FALSE

\* Chain::supported
supported(c, pool_type) == IF c \in DOMAIN CHAIN_POOLS THEN pool_type \in CHAIN_POOLS[c] ELSE FALSE

\* PoolSyncBuilder::default()
NewBuilder == [fetchers |-> {}, chain |-> None, rate_limit |-> None,
               start_block |-> None, end_block |-> None]

add_pool(b, pool_type) == [b EXCEPT !.fetchers = @ \cup {pool_type}]

RECURSIVE add_pools(_, _, _)
add_pools(b, pools, k) ==
    IF k > Len(pools) THEN b ELSE add_pools(add_pool(b, pools[k]), pools, k + 1)

\* PoolSyncBuilder::chain, rate_limit, start_block, end_block, block_range
builder_chain(b, c) == [b EXCEPT !.chain = Some(c)]
builder_rate_limit(b, n) == [b EXCEPT !.rate_limit = Some(n)]
builder_start_block(b, n) == [b EXCEPT !.start_block = Some(n)]
builder_end_block(b, n) == [b EXCEPT !.end_block = Some(n)]
block_range(b, s, e) == [b EXCEPT !.start_block = Some(s), !.end_block = Some(e)]

\* self.rate_limit.unwrap_or(10000) as u64
DefaultRateLimit == 10000
unwrap_or(o, d) == IF is_some(o) THEN unwrap(o) ELSE d

\* PoolSyncBuilder::build
build(b) ==
    IF ~is_some(b.chain) THEN [ok |-> FALSE, err |-> "ChainNotSet"]
    ELSE IF \E t \in b.fetchers : ~supported(unwrap(b.chain), t)
    THEN [ok |-> FALSE, err |-> "UnsupportedPoolType"]
    ELSE [ok |-> TRUE,
          pool_sync |-> [fetchers |-> b.fetchers,
                         rate_limit |-> unwrap_or(b.rate_limit, DefaultRateLimit),
                         chain |-> unwrap(b.chain),
                         start_block |-> b.start_block,
                         end_block |-> b.end_block]]

NotBuilt == [ok |-> FALSE, err |-> "none"]

\* No builder is modelled.
IdleBuilder ==
    /\ builder = NewBuilder
    /\ built = NotBuilt

\* The history of the ranges synced: nothing yet.
NothingProcessed ==
    [mem |-> [t \in PoolTypes |-> {}],
     disk |-> [t \in PoolTypes |-> {}],
     count |-> [t \in PoolTypes |-> 0],
     last |-> <<>>]
\* A run starts from the files; a cache is synced over start .. end; the
\* caches of the run are written.
load_processed(pr) == [pr EXCEPT !.mem = pr.disk, !.count = [t \in DOMAIN pr.count |-> 0]]
mark_processed(pr, pool_type, start_block, to_block) ==
    [pr EXCEPT !.mem[pool_type] = @ \cup (start_block .. to_block), !.count[pool_type] = @ + 1,
               !.last = [pool_type |-> pool_type, start_block |-> start_block, to_block |-> to_block]]
persist_processed(pr, types) ==
    [pr EXCEPT !.disk = [t \in DOMAIN pr.disk |-> IF t \in types THEN pr.mem[t] ELSE pr.disk[t]]]

\* No collaborator has failed.
NoFailure == [kind |-> "none", run |-> 0]
NoHistory ==
    /\ unpopulated = {}
    /\ io_failure = NoFailure
    /\ processed = NothingProcessed

\* No run of sync_pools is modelled.
IdleDriver ==
    /\ head = 1
    /\ disk = [t \in PoolTypes |-> NoFile]
    /\ cfg = NoCfg
    /\ pc = "off"
    /\ pool_caches = <<>>
    /\ fully_synced = FALSE
    /\ last_synced_block = 0
    /\ end_block = 0
    /\ idx = 0
    /\ ret = <<>>
    /\ runs = 0
    /\ round_work = <<>>
    /\ completed = <<>>
    /\ replays = NoReplays

V3Init ==
    /\ \E s \in Spacings : pool = NewV3Pool(s, 1)
    /\ overflow_checks \in BOOLEAN
    /\ panicked = FALSE
    /\ initial_sync \in BOOLEAN
    /\ nEvents = 0
    /\ last_log = NoLog
    /\ v2pool = NoV2Pool
    /\ IdleDriver
    /\ IdleBuild
    /\ NoHistory
    /\ IdleBuilder

\* One log handed to process_tick_data. An overflow is a panic in a build
\* with overflow checks and the wrapped value in a build without.
Replay(log) ==
    /\ ~panicked
    /\ nEvents < MaxEvents
    /\ \E r \in { process_tick_data(pool, log, initial_sync) } :
           IF r.of /\ overflow_checks
           THEN panicked' = TRUE /\ pool' = pool
           ELSE panicked' = FALSE /\ pool' = r.pool
    /\ nEvents' = nEvents + 1
    /\ last_log' = log
    /\ UNCHANGED <<overflow_checks, initial_sync>>

Mint ==
    \E r \in Ranges, a \in Amounts :
        LET log == MintLog(r[1], r[2], a)
        IN  TickAligned(pool, log) /\ TickArithmeticOk(pool, log) /\ Replay(log)

Burn ==
    \E r \in Ranges, a \in Amounts :
        LET log == BurnLog(r[1], r[2], a)
        IN  TickAligned(pool, log) /\ TickArithmeticOk(pool, log) /\ Replay(log)

Swap ==
    \E v \in SwapValues : Replay(SwapLog(v))

\* The pool's first round has completed (pool_sync.rs: the cache's flag is
\* cleared): later logs are replayed in steady state.
FirstRoundDone ==
    /\ ~panicked
    /\ initial_sync
    /\ initial_sync' = FALSE
    /\ UNCHANGED <<pool, overflow_checks, panicked, nEvents, last_log>>

V3Next == (Mint \/ Burn \/ Swap \/ FirstRoundDone) /\ UNCHANGED <<v2vars, syncvars, buildvars, histvars, buildervars>>

Spec == V3Init /\ [][V3Next]_vars

(***************************************************************************)
(* Claims on the tick map and the bitmap.                                  *)
(***************************************************************************)
\* Reading a bit back, independently of position(): the bit of the
\* compressed tick q is bit (q mod 256) of word floor(q / 256).
BitOf(p, q) ==
    /\ (q \div 256) \in DOMAIN p.tick_bitmap
    /\ (q % 256) \in p.tick_bitmap[q \div 256]
\* The compressed ticks whose bit is set.
SetBits(p) == { w * 256 + b : <<w, b>> \in UNION { {w} \X p.tick_bitmap[w] : w \in DOMAIN p.tick_bitmap } }

TickView(p, t) ==
    [present |-> (t \in DOMAIN p.ticks),
     info |-> IF t \in DOMAIN p.ticks THEN p.ticks[t] ELSE TickInfoDefault,
     bit |-> BitOf(p, div_i32(t, p.tick_spacing))]
Restored(p, q, lo, hi) ==
    /\ TickView(p, lo) = TickView(q, lo)
    /\ TickView(p, hi) = TickView(q, hi)
    /\ p.liquidity = q.liquidity

GrossOf(p, t) == IF t \in DOMAIN p.ticks THEN p.ticks[t].liquidity_gross ELSE 0
\* the mint of d over (lo, hi) does not overflow the gross liquidity (u128)
GrossFits(p, lo, hi, d) ==
    IF lo = hi THEN GrossOf(p, lo) + 2 * d <= U128Max
    ELSE GrossOf(p, lo) + d <= U128Max /\ GrossOf(p, hi) + d <= U128Max

\* mint(lo, hi, d) then burn(lo, hi, d) from p ends without a panic in a pool
\* that has the boundary ticks, their bits and the liquidity of p
RoundTrips(p, lo, hi, d, f) ==
    LET m == process_mint(p, MintLog(lo, hi, d), f)
        b == process_burn(m.pool, BurnLog(lo, hi, d), f)
    IN  /\ ~(overflow_checks /\ (m.of \/ b.of))
        /\ Restored(p, b.pool, lo, hi)

\* The ranges tried: those of the model's positions and one whose lower
\* tick is no multiple of the spacing 2.
ProbeRanges == Ranges \cup { <<-1, 2>> }

\* C3 as stated: for every reachable pool, range and amount d that fits a
\* non-negative i128 and does not overflow gross liquidity, mint then burn
\* (same initial-sync flag) restores both TickInfos, both bits and the
\* aggregate liquidity.
C3_RoundTrip_AsStated ==
    \A r \in ProbeRanges, d \in 0 .. I128Max, f \in BOOLEAN :
        GrossFits(pool, r[1], r[2], d) => RoundTrips(pool, r[1], r[2], d, f)

\* C3 as amended: ... and, in a build that checks overflow, neither the mint
\* nor the burn overflows the net liquidity of a boundary tick (i128) or the
\* aggregate liquidity of the pool (the replay panics there).
C3_RoundTrip ==
    \A r \in ProbeRanges, d \in 0 .. I128Max, f \in BOOLEAN :
        LET m == process_mint(pool, MintLog(r[1], r[2], d), f)
            b == process_burn(m.pool, BurnLog(r[1], r[2], d), f)
        IN  (GrossFits(pool, r[1], r[2], d) /\ (overflow_checks => ~m.of /\ ~b.of))
                => Restored(pool, b.pool, r[1], r[2])

\* A steady-state pool in which the range (-2, 2) holds the current tick,
\* tick -2 has an entry and tick 2 has none: minting 1 there changes the
\* entry at -2, inserts one at 2, sets its bit and raises the liquidity.
C3_Witness ==
    /\ ~initial_sync /\ ~panicked
    /\ pool.tick = 0
    /\ -2 \in DOMAIN pool.ticks /\ 2 \notin DOMAIN pool.ticks
    /\ LET m == process_mint(pool, MintLog(-2, 2, 1), FALSE)
       IN  /\ ~m.of
           /\ m.pool.liquidity = pool.liquidity + 1
           /\ 2 \in DOMAIN m.pool.ticks
           /\ TickView(m.pool, 2).bit /\ ~TickView(pool, 2).bit
           /\ m.pool.ticks[-2] # pool.ticks[-2]
    /\ RoundTrips(pool, -2, 2, 1, FALSE)

\* The price and active-liquidity fields of a pool.
PriceView(p) == <<p.liquidity, p.tick, p.sqrt_price>>
\* A mint of d over lo < hi, multiples of the spacing: an amount a pool emits.
ValidMint(p, lo, hi, d) ==
    /\ lo < hi /\ lo % p.tick_spacing = 0 /\ hi % p.tick_spacing = 0
    /\ d > 0 /\ d <= I128Max
\* The entries and bits a mint of d leaves at two ticks that had no entry.
FreshlyMinted(q, lo, hi, d) ==
    /\ lo \in DOMAIN q.ticks /\ hi \in DOMAIN q.ticks
    /\ q.ticks[lo].liquidity_gross = d /\ q.ticks[lo].liquidity_net = d
    /\ q.ticks[hi].liquidity_gross = d /\ q.ticks[hi].liquidity_net = -d
    /\ BitOf(q, lo \div q.tick_spacing) /\ BitOf(q, hi \div q.tick_spacing)
InitialSyncFrame(p, log) ==
    \A res \in { process_tick_data(p, log, TRUE) } :
        ~(overflow_checks /\ res.of) =>
            /\ PriceView(res.pool) = PriceView(p)
            /\ (/\ log.kind = "Mint"
                /\ ValidMint(p, log.tickLower, log.tickUpper, log.amount)
                /\ log.tickLower \notin DOMAIN p.ticks /\ log.tickUpper \notin DOMAIN p.ticks)
               => (~res.of /\ FreshlyMinted(res.pool, log.tickLower, log.tickUpper, log.amount))

\* C11: replayed with is_initial_sync = true, a mint or burn of any range
\* and amount leaves aggregate liquidity, current tick and sqrt price as
\* they are, wherever the current tick lies, and a mint of D over lo < hi
\* on a pool with no entry at lo and hi leaves gross D, net +D at lo and
\* gross D, net -D at hi, with both bitmap bits set.
C11_InitialSyncFrame ==
    \A r \in ProbeRanges, a \in 0 .. U128Max :
        /\ InitialSyncFrame(pool, MintLog(r[1], r[2], a))
        /\ InitialSyncFrame(pool, BurnLog(r[1], r[2], a))

\* An in-range mint has just been replayed in the initial sync: the
\* aggregate liquidity is still the bulk-read one, both ticks have entries.
C11_Witness ==
    /\ initial_sync /\ ~panicked /\ nEvents = 1
    /\ last_log.kind = "Mint" /\ last_log.amount = 2
    /\ last_log.tickLower = -2 /\ last_log.tickUpper = 2
    /\ pool.tick = 0 /\ pool.liquidity = 1
    /\ FreshlyMinted(pool, -2, 2, 2)

SignedAmount(log) == IF log.kind = "Burn" THEN -log.amount ELSE log.amount
\* Both boundary ticks hold exactly the amount of the burn.
HoldsOnly(p, log) ==
    /\ log.kind = "Burn" /\ log.tickLower < log.tickUpper
    /\ log.tickLower \in DOMAIN p.ticks /\ log.tickUpper \in DOMAIN p.ticks
    /\ p.ticks[log.tickLower].liquidity_gross = log.amount
    /\ p.ticks[log.tickUpper].liquidity_gross = log.amount
BothCleared(q, log) ==
    /\ log.tickLower \notin DOMAIN q.ticks /\ log.tickUpper \notin DOMAIN q.ticks
    /\ ~BitOf(q, log.tickLower \div q.tick_spacing) /\ ~BitOf(q, log.tickUpper \div q.tick_spacing)
SteadyStep(p, log) ==
    \A res \in { process_tick_data(p, log, FALSE) } :
        ~res.of =>
            /\ (res.pool.liquidity # p.liquidity) <=> (log.tickLower <= p.tick /\ p.tick < log.tickUpper)
            /\ (log.tickLower <= p.tick /\ p.tick < log.tickUpper)
                   => res.pool.liquidity = p.liquidity + SignedAmount(log)
            /\ HoldsOnly(p, log) => BothCleared(res.pool, log)

\* C12: replayed in steady state, a mint or burn of D # 0 over (lower,
\* upper) changes the aggregate liquidity if and only if lower <= tick <
\* upper, and then by exactly +D (mint) or -D (burn); a burn of the full
\* amount over a range whose ticks hold only that amount removes both
\* TickInfo entries and clears both bitmap bits.
C12_SteadyStateLiquidity ==
    \A r \in ProbeRanges, a \in 1 .. I128Max :
        /\ SteadyStep(pool, MintLog(r[1], r[2], a))
        /\ SteadyStep(pool, BurnLog(r[1], r[2], a))

\* In steady state an in-range mint of 2 and then the burn of the 2 have
\* been replayed: the liquidity is back at 1, entries and bits are gone.
C12_Witness ==
    /\ ~initial_sync /\ ~panicked /\ nEvents = 2
    /\ last_log.kind = "Burn" /\ last_log.amount = 2
    /\ last_log.tickLower = -2 /\ last_log.tickUpper = 2
    /\ pool.tick = 0 /\ pool.liquidity = 1
    /\ DOMAIN pool.ticks = {} /\ SetBits(pool) = {}

(***************************************************************************)
(* Replays that include burns the pool's state does not cover (the logs of *)
(* their mints were not replayed).                                         *)
(***************************************************************************)
\* The burn takes more than the gross liquidity of a boundary tick (0 for a
\* tick without entry) or, in range and in steady state, than the
\* aggregate liquidity.
Exceeds(p, log, is_initial_sync) ==
    \/ log.amount > GrossOf(p, log.tickLower)
    \/ log.amount > GrossOf(p, log.tickUpper)
    \/ /\ ~is_initial_sync
       /\ log.tickLower <= p.tick /\ p.tick < log.tickUpper
       /\ log.amount > p.liquidity

ExcessBurn ==
    \E r \in Ranges, a \in 1 .. I128Max :
        /\ Exceeds(pool, BurnLog(r[1], r[2], a), initial_sync)
        /\ Replay(BurnLog(r[1], r[2], a) @@ [excess |-> TRUE])

\* Number of logs replayed against the pool in these behaviours.
MaxReplays == 2

ReplayNext ==
    /\ nEvents < MaxReplays
    /\ Mint \/ Burn \/ Swap \/ FirstRoundDone \/ ExcessBurn
    /\ UNCHANGED <<v2vars, syncvars, buildvars, histvars, buildervars>>

SpecReplay == V3Init /\ [][ReplayNext]_vars

\* C13: a burn whose amount exceeds the gross liquidity of a boundary tick,
\* or in steady state and in range the aggregate liquidity, ends in a fatal
\* error: no pool state with a wrapped or clamped value comes out of it.
C13_ExcessBurnIsFatal ==
    (last_log.kind = "Burn" /\ "excess" \in DOMAIN last_log) => panicked

\* The fields a swap writes.
SwapFields == {"tick", "sqrt_price", "liquidity"}
SwapStep(p, log, is_initial_sync) ==
    \A res \in { process_tick_data(p, log, is_initial_sync) } :
        /\ ~res.of
        /\ res.pool.tick = log.tick
        /\ res.pool.sqrt_price = log.sqrtPriceX96
        /\ res.pool.liquidity = log.liquidity
        /\ DOMAIN res.pool = DOMAIN p
        /\ \A f \in DOMAIN p \ SwapFields : res.pool[f] = p[f]
        /\ process_tick_data(res.pool, log, is_initial_sync) = res

\* C29: a swap sets the pool's tick, square root price and liquidity to the
\* event's values whatever the initial-sync flag, leaves every other field
\* (tick map and bitmap included) as it was, and replayed a second time
\* changes nothing.
C29_SwapOverwrites ==
    \A v \in SwapValues, f \in BOOLEAN : SwapStep(pool, SwapLog(v), f)

C29_Witness ==
    /\ ~panicked /\ initial_sync
    /\ last_log = SwapLog(<<2, 3, 2>>)
    /\ PriceView(pool) = <<2, 2, 3>>
    /\ DOMAIN pool.ticks # {}
    /\ SetBits(pool) # {}

\* The gross liquidity of both boundary ticks moves the way of the event:
\* up or not at all on a mint, down or not at all on a burn. Replays in
\* which an addition or subtraction overflows are left aside.
GrossFollowsKind(p, log, is_initial_sync) ==
    \A res \in { process_tick_data(p, log, is_initial_sync) } :
        ~res.of =>
            \A t \in {log.tickLower, log.tickUpper} :
                IF log.kind = "Mint" THEN GrossOf(res.pool, t) >= GrossOf(p, t)
                ELSE GrossOf(res.pool, t) <= GrossOf(p, t)

\* C30: for every amount of the unsigned range, amounts of 2^127 and more
\* included, a mint never lowers and a burn never raises the gross liquidity
\* of a boundary tick.
C30_AmountKeepsItsSign ==
    \A r \in Ranges, a \in 0 .. U128Max, f \in BOOLEAN :
        /\ GrossFollowsKind(pool, MintLog(r[1], r[2], a), f)
        /\ GrossFollowsKind(pool, BurnLog(r[1], r[2], a), f)

(***************************************************************************)
(* flip_tick on its own: any tick, aligned to the spacing or not.          *)
(***************************************************************************)
MaxFlips == 2
\* Ticks of the int24 range of Mint and Burn logs: the two ends, the ticks
\* around a word boundary on both sides of zero, and small ticks.
FlipTicks == { -8388608, -257, -256, -255, -3, -2, -1, 0, 1, 2, 3, 255, 256, 8388607 }
FlipSpacings == {1, 2, 3}

FlipLog(tick, before) == [kind |-> "Flip", tick |-> tick, before |-> before]

FlipInit ==
    /\ \E s \in FlipSpacings : pool = NewV3Pool(s, 1)
    /\ overflow_checks = FALSE
    /\ panicked = FALSE
    /\ initial_sync = FALSE
    /\ nEvents = 0
    /\ last_log = NoLog
    /\ v2pool = NoV2Pool
    /\ IdleDriver
    /\ IdleBuild
    /\ NoHistory
    /\ IdleBuilder

FlipTick ==
    \E t \in FlipTicks :
        /\ nEvents < MaxFlips
        /\ pool' = flip_tick(pool, t, pool.tick_spacing)
        /\ nEvents' = nEvents + 1
        /\ last_log' = FlipLog(t, pool)
        /\ UNCHANGED <<overflow_checks, panicked, initial_sync, v2pool, syncvars, buildvars, histvars, buildervars>>

SpecFlip == FlipInit /\ [][FlipTick]_vars

SymDiff(A, B) == (A \ B) \cup (B \ A)
\* The last flip_tick toggled exactly the bit that decodes to q, and every
\* bit of the bitmap is one of a 256-bit word.
ToggledAt(q) ==
    /\ SetBits(pool) = SymDiff(SetBits(last_log.before), {q})
    /\ \A w \in DOMAIN pool.tick_bitmap : pool.tick_bitmap[w] \subseteq 0 .. 255

\* C4 as stated: for every tick t and spacing s >= 1 the (word, bit) that
\* flip_tick toggles satisfies word * 256 + bit = floor(t / s), 0 <= bit <= 255.
C4_FlipAddress_AsStated ==
    last_log.kind = "Flip" => ToggledAt(last_log.tick \div pool.tick_spacing)

\* C4 as amended: word * 256 + bit is the quotient t / s rounded toward zero
\* (the floor only if t >= 0 or s divides t), 0 <= bit <= 255.
C4_FlipAddress ==
    last_log.kind = "Flip" => ToggledAt(div_i32(last_log.tick, pool.tick_spacing))

\* Tick -3 has been flipped with spacing 2: bit 255 of word -1 (compressed
\* tick -1) is set, bit 254 (compressed tick -2, the floor) is not.
C4_Witness ==
    /\ last_log.kind = "Flip" /\ last_log.tick = -3 /\ pool.tick_spacing = 2
    /\ BitOf(pool, -1) /\ ~BitOf(pool, -2)
    /\ last_log.before.tick_bitmap # <<>>

(***************************************************************************)
(* Reserve syncs of a constant-product pool.                               *)
(***************************************************************************)
MaxSyncs == 2
V2Reserves == 0 .. 2
V2Decimals == {6, 18}
V2OtherFields == { "address", "token0", "token1", "token0_name", "token1_name",
                   "token0_decimals", "token1_decimals" }

V2Init ==
    /\ \E d \in V2Decimals, r0 \in V2Reserves, r1 \in V2Reserves : v2pool = NewV2Pool(d, r0, r1)
    /\ pool = NewV3Pool(1, 1)
    /\ overflow_checks = FALSE
    /\ panicked = FALSE
    /\ initial_sync = FALSE
    /\ nEvents = 0
    /\ last_log = NoLog
    /\ IdleDriver
    /\ IdleBuild
    /\ NoHistory
    /\ IdleBuilder

Sync ==
    \E r0 \in V2Reserves, r1 \in V2Reserves :
        /\ nEvents < MaxSyncs
        /\ v2pool' = process_sync_data(v2pool, SyncLog(r0, r1))
        /\ nEvents' = nEvents + 1
        /\ last_log' = SyncLog(r0, r1) @@ [before |-> v2pool]
        /\ UNCHANGED <<pool, overflow_checks, panicked, initial_sync, syncvars, buildvars, histvars, buildervars>>

SpecV2 == V2Init /\ [][Sync]_vars

\* C5: after each reserve-sync event the pool's reserves are that event's
\* (reserve0, reserve1) whatever came before, applying the same event again
\* changes nothing, and no other field of the pool has changed.
C5_ReservesAreLastSync ==
    last_log.kind = "Sync" =>
        /\ v2pool.token0_reserves = last_log.reserve0
        /\ v2pool.token1_reserves = last_log.reserve1
        /\ process_sync_data(v2pool, last_log) = v2pool
        /\ \A f \in V2OtherFields : v2pool[f] = last_log.before[f]
        /\ DOMAIN v2pool = DOMAIN last_log.before

\* A second sync has overwritten different reserves left by the first.
C5_Witness ==
    /\ nEvents = 2 /\ last_log.kind = "Sync"
    /\ last_log.reserve0 # last_log.reserve1
    /\ last_log.before.token0_reserves # last_log.reserve0
    /\ last_log.before.token1_reserves # last_log.reserve1
    /\ v2pool.token0_reserves = last_log.reserve0

(***************************************************************************)
(* build_pools on its own.                                                 *)
(***************************************************************************)
BuildInit ==
    /\ bp_pc = "call"
    /\ bp_type \in PoolTypes
    /\ addresses \in AddressLists
    /\ retry_count = 0
    /\ backoff = INITIAL_BACKOFF
    /\ sleep_duration = 0
    /\ outcomes = <<>>
    /\ bp_ret = NoRet
    /\ pool = NewV3Pool(1, 1)
    /\ overflow_checks = FALSE
    /\ panicked = FALSE
    /\ initial_sync = FALSE
    /\ nEvents = 0
    /\ last_log = NoLog
    /\ v2pool = NoV2Pool
    /\ IdleDriver
    /\ NoHistory
    /\ IdleBuilder

\* populate_pool_data returns Ok(pools): build_pools returns them.
PopulateOk ==
    /\ bp_pc = "call"
    /\ \E o \in Outcomes(bp_type) :
        /\ populate_pool_data(bp_type, o).ok
        /\ outcomes' = Append(outcomes, attempt(o, addresses))
        /\ bp_ret' = [ok |-> TRUE, pools |-> populate_pool_data(bp_type, o).pools]
        /\ bp_pc' = "returned"
        /\ UNCHANGED <<bp_type, addresses, retry_count, backoff, sleep_duration, v3vars, v2vars, syncvars, histvars, buildervars>>

\* populate_pool_data returns Err below the ceiling: sleep, count, double.
PopulateErrRetry ==
    /\ bp_pc = "call"
    /\ \E o \in Outcomes(bp_type), jitter \in Jitters :
        /\ ~populate_pool_data(bp_type, o).ok
        /\ ~give_up(retry_count)
        /\ outcomes' = Append(outcomes, attempt(o, addresses))
        /\ sleep_duration' = backoff + jitter
        /\ retry_count' = retry_count + 1
        /\ backoff' = exponential_backoff(backoff)
        /\ UNCHANGED <<bp_pc, bp_type, addresses, bp_ret, v3vars, v2vars, syncvars, histvars, buildervars>>

\* populate_pool_data returns Err at the ceiling: Ok(Vec::new()).
PopulateErrGiveUp ==
    /\ bp_pc = "call"
    /\ \E o \in Outcomes(bp_type) :
        /\ ~populate_pool_data(bp_type, o).ok
        /\ give_up(retry_count)
        /\ outcomes' = Append(outcomes, attempt(o, addresses))
        /\ bp_ret' = [ok |-> TRUE, pools |-> <<>>]
        /\ bp_pc' = "returned"
        /\ UNCHANGED <<bp_type, addresses, retry_count, backoff, sleep_duration, v3vars, v2vars, syncvars, histvars, buildervars>>

BuildNext == PopulateOk \/ PopulateErrRetry \/ PopulateErrGiveUp

SpecBuild == BuildInit /\ [][BuildNext]_vars

AllFailed == \A k \in DOMAIN outcomes : outcomes[k].kind # "decoded"

\* C14: when every call of the bulk read fails, build_pools returns Ok with
\* no pool, after MAX_RETRIES + 1 calls; it never returns an Err.
C14_ExhaustionReturnsEmpty ==
    bp_pc = "returned" =>
        /\ bp_ret.ok
        /\ AllFailed => bp_ret.pools = <<>> /\ Len(outcomes) = MAX_RETRIES + 1

C14_Witness ==
    /\ bp_pc = "returned" /\ AllFailed /\ Len(outcomes) = 6
    /\ \A k \in DOMAIN outcomes : outcomes[k].kind = "transport"
    /\ bp_ret = [ok |-> TRUE, pools |-> <<>>]
    /\ retry_count = 5 /\ sleep_duration = 16000

\* C15: a bulk-read result that does not decode is fatal: build_pools ends
\* at once with an Err; the call is not repeated and no Ok is returned.
C15_DecodeFailureIsFatal ==
    \A k \in DOMAIN outcomes :
        outcomes[k].kind = "decode" => k = Len(outcomes) /\ bp_pc = "returned" /\ ~bp_ret.ok

\* The address, token0 and token1 a decoded tuple carries.
Triple(pool_type, t) == IF is_v3(pool_type) THEN <<t[1], t[2], t[4]>> ELSE <<t[1], t[2], t[3]>>
NoZero(tr) == tr[1] # ZERO /\ tr[2] # ZERO /\ tr[3] # ZERO
TriplesOf(pool_type, arr) == [k \in DOMAIN arr |-> Triple(pool_type, arr[k])]
PoolTriples(pools) == [k \in DOMAIN pools |-> <<pools[k].address, pools[k].token0, pools[k].token1>>]

\* C18: every pool build_pools returns has a non-zero address, token0 and
\* token1; the returned pools are the decoded tuples without a zero among
\* the three, in their order, and never more than the decoded tuples.
C18_OnlyValidPools ==
    bp_pc = "returned" =>
        /\ \A k \in DOMAIN bp_ret.pools : NoZero(PoolTriples(bp_ret.pools)[k])
        /\ outcomes[Len(outcomes)].kind = "decoded" =>
              /\ PoolTriples(bp_ret.pools)
                   = SelectSeq(TriplesOf(bp_type, outcomes[Len(outcomes)].array), NoZero)
              /\ Len(bp_ret.pools) <= Len(outcomes[Len(outcomes)].array)

C18_Witness ==
    /\ bp_pc = "returned" /\ bp_type = "UniswapV3"
    /\ outcomes[Len(outcomes)].kind = "decoded"
    /\ outcomes[Len(outcomes)].array = << <<1, 1, Decimals, ZERO>>, <<1, 1, Decimals, 1>> >>
    /\ Len(bp_ret.pools) = 1
    /\ bp_ret.pools[1].token1 = 1

(***************************************************************************)
(* The builder on its own.                                                 *)
(***************************************************************************)
\* The rate limits a caller sets.
RateLimits == {1, 20000}
\* The slices add_pools is called with.
PoolSlices == { <<>>, <<"Agni", "UniswapV3">>, <<"MerchantMoe", "MerchantMoe">> }

BuilderInit ==
    /\ builder = NewBuilder
    /\ built = NotBuilt
    /\ pool = NewV3Pool(1, 1)
    /\ overflow_checks = FALSE
    /\ panicked = FALSE
    /\ initial_sync = FALSE
    /\ nEvents = 0
    /\ last_log = NoLog
    /\ v2pool = NoV2Pool
    /\ IdleDriver
    /\ IdleBuild
    /\ NoHistory

notbuilder == <<v3vars, v2vars, syncvars, buildvars, histvars>>

AddPool ==
    \E t \in AllPoolTypes :
        /\ built = NotBuilt
        /\ builder' = add_pool(builder, t)
        /\ UNCHANGED <<built, notbuilder>>

AddPools ==
    \E ts \in PoolSlices :
        /\ built = NotBuilt
        /\ builder' = add_pools(builder, ts, 1)
        /\ UNCHANGED <<built, notbuilder>>

SetChain ==
    \E c \in Chains :
        /\ built = NotBuilt
        /\ builder' = builder_chain(builder, c)
        /\ UNCHANGED <<built, notbuilder>>

SetRateLimit ==
    \E n \in RateLimits :
        /\ built = NotBuilt
        /\ builder' = builder_rate_limit(builder, n)
        /\ UNCHANGED <<built, notbuilder>>

SetStartBlock ==
    \E n \in 1 .. MaxBlock :
        /\ built = NotBuilt
        /\ builder' = builder_start_block(builder, n)
        /\ UNCHANGED <<built, notbuilder>>

SetEndBlock ==
    \E n \in 1 .. MaxBlock :
        /\ built = NotBuilt
        /\ builder' = builder_end_block(builder, n)
        /\ UNCHANGED <<built, notbuilder>>

SetBlockRange ==
    \E s \in 1 .. MaxBlock, e \in 1 .. MaxBlock :
        /\ built = NotBuilt
        /\ builder' = block_range(builder, s, e)
        /\ UNCHANGED <<built, notbuilder>>

\* build consumes the builder: nothing else is touched.
Build ==
    /\ built = NotBuilt
    /\ built' = build(builder)
    /\ UNCHANGED <<builder, notbuilder>>

BuilderNext ==
    \/ AddPool \/ AddPools \/ SetChain \/ SetRateLimit
    \/ SetStartBlock \/ SetEndBlock \/ SetBlockRange \/ Build

SpecBuilder == BuilderInit /\ [][BuilderNext]_vars

\* The chain table as the claim reads it: has every added pool type a place on it.
AllSupported(b) == b.fetchers \subseteq CHAIN_POOLS[unwrap(b.chain)]

\* C19: build returns Err(ChainNotSet) when no chain was set,
\* Err(UnsupportedPoolType) when a chain was set and an added pool type is
\* not in its table, and otherwise a PoolSync with exactly the added pool
\* types, the chain and the start and end overrides as they were set; the
\* files and the chain are not touched.
C19_BuildValidates ==
    built # NotBuilt =>
        /\ ~is_some(builder.chain) => built = [ok |-> FALSE, err |-> "ChainNotSet"]
        /\ is_some(builder.chain) /\ ~AllSupported(builder)
              => built = [ok |-> FALSE, err |-> "UnsupportedPoolType"]
        /\ is_some(builder.chain) /\ AllSupported(builder) =>
              /\ built.ok
              /\ built.pool_sync.fetchers = builder.fetchers
              /\ built.pool_sync.chain = unwrap(builder.chain)
              /\ built.pool_sync.start_block = builder.start_block
              /\ built.pool_sync.end_block = builder.end_block
        /\ IdleDriver

C19_Witness ==
    /\ built.ok
    /\ built.pool_sync.fetchers = {"UniswapV3", "Agni"}
    /\ built.pool_sync.chain = "Mantle"
    /\ built.pool_sync.start_block = Some(2)
    /\ built.pool_sync.end_block = None
    /\ built.pool_sync.rate_limit = DefaultRateLimit

C19_WitnessChainNotSet ==
    /\ built = [ok |-> FALSE, err |-> "ChainNotSet"]
    /\ builder.fetchers = {"MerchantMoe"}
    /\ is_some(builder.end_block)

(***************************************************************************)
(* Runs of sync_pools against the chain.                                   *)
(***************************************************************************)
quietvars == <<pool, initial_sync, nEvents, last_log, v2pool, overflow_checks, buildvars, buildervars>>
runvars == <<quietvars, histvars>>

SyncInit ==
    /\ head \in 1 .. MaxBlock
    /\ disk = [t \in PoolTypes |-> NoFile]
    /\ cfg = NoCfg
    /\ pc = "idle"
    /\ pool_caches = <<>>
    /\ fully_synced = FALSE
    /\ last_synced_block = 0
    /\ end_block = 0
    /\ idx = 0
    /\ ret = <<>>
    /\ runs = 0
    /\ round_work = <<>>
    /\ completed = <<>>
    /\ replays = NoReplays
    /\ overflow_checks \in BOOLEAN
    /\ panicked = FALSE
    /\ pool = NewV3Pool(1, 1)
    /\ initial_sync = FALSE
    /\ nEvents = 0
    /\ last_log = NoLog
    /\ v2pool = NoV2Pool
    /\ IdleBuild
    /\ NoHistory
    /\ IdleBuilder

\* A block is added to the chain (between two rounds or two runs).
AdvanceHead ==
    /\ pc \in {"idle", "loop", "done"}
    /\ head < MaxBlock
    /\ head' = head + 1
    /\ UNCHANGED <<disk, cfg, pc, pool_caches, fully_synced, last_synced_block, end_block,
                   idx, ret, runs, round_work, completed, replays, panicked, runvars>>

\* sync_pools is called on a PoolSync: the caches are read, the locals set.
StartRun ==
    \E f \in FetcherSets, sb \in OptBlocks, eb \in OptBlocks :
        /\ pc \in {"idle", "done"} \/ panicked
        /\ runs < MaxRuns
        /\ cfg' = [fetchers |-> f, start_block |-> sb, end_block |-> eb]
        /\ pool_caches' = [k \in DOMAIN f |-> read_cache_file(disk, f[k])]
        /\ fully_synced' = FALSE
        /\ last_synced_block' = 0
        /\ pc' = "loop"
        /\ panicked' = FALSE
        /\ runs' = runs + 1
        /\ round_work' = <<>>
        /\ replays' = NoReplays
        /\ processed' = load_processed(processed)
        /\ UNCHANGED <<head, disk, end_block, idx, ret, completed, unpopulated, io_failure, quietvars>>

\* `while !fully_synced` is entered: the round's end block is resolved.
RoundStart ==
    /\ pc = "loop" /\ ~panicked
    /\ ~fully_synced
    /\ fully_synced' = TRUE
    /\ end_block' = resolve_end_block(cfg.end_block, head)
    /\ idx' = 1
    /\ pc' = "for"
    /\ round_work' = Append(round_work, FALSE)
    /\ UNCHANGED <<head, disk, cfg, pool_caches, last_synced_block, ret, runs,
                   completed, replays, panicked, runvars>>

\* The loop body for a cache with start_block <= end_block.
SyncProtocol ==
    /\ pc = "for" /\ ~panicked
    /\ idx <= Len(pool_caches)
    /\ needs_sync(resolve_start_block(pool_caches[idx], cfg.start_block), end_block)
    /\ \E r \in { sync_protocol(pool_caches[idx],
                      resolve_start_block(pool_caches[idx], cfg.start_block), end_block, head) } :
           IF r.of /\ overflow_checks
           THEN /\ panicked' = TRUE
                /\ UNCHANGED <<pool_caches, fully_synced, last_synced_block, idx, replays, round_work,
                               processed>>
           ELSE /\ panicked' = FALSE
                /\ processed' = mark_processed(processed, pool_caches[idx].pool_type,
                                    resolve_start_block(pool_caches[idx], cfg.start_block), end_block)
                /\ pool_caches' = [pool_caches EXCEPT ![idx] = r.cache]
                /\ fully_synced' = mark_work(fully_synced)
                /\ last_synced_block' = end_block
                /\ idx' = idx + 1
                /\ replays' = r.replays
                /\ round_work' = [round_work EXCEPT ![Len(round_work)] = TRUE]
    /\ UNCHANGED <<head, disk, cfg, pc, end_block, ret, runs, completed, unpopulated, io_failure, quietvars>>

\* The loop body for a cache that is already at the end block.
SkipProtocol ==
    /\ pc = "for" /\ ~panicked
    /\ idx <= Len(pool_caches)
    /\ ~needs_sync(resolve_start_block(pool_caches[idx], cfg.start_block), end_block)
    /\ idx' = idx + 1
    /\ UNCHANGED <<head, disk, cfg, pc, pool_caches, fully_synced, last_synced_block, end_block,
                   ret, runs, round_work, completed, replays, panicked, runvars>>

\* The end of a round: break when an explicit end block is reached by all.
RoundEnd ==
    /\ pc = "for" /\ ~panicked
    /\ idx > Len(pool_caches)
    /\ pc' = IF is_some(cfg.end_block) /\ all_synced_to_target(pool_caches, unwrap(cfg.end_block))
             THEN "write" ELSE "loop"
    /\ UNCHANGED <<head, disk, cfg, pool_caches, fully_synced, last_synced_block, end_block,
                   idx, ret, runs, round_work, completed, replays, panicked, runvars>>

\* `while !fully_synced` is left.
LoopExit ==
    /\ pc = "loop" /\ ~panicked
    /\ fully_synced
    /\ pc' = "write"
    /\ UNCHANGED <<head, disk, cfg, pool_caches, fully_synced, last_synced_block, end_block,
                   idx, ret, runs, round_work, completed, replays, panicked, runvars>>

\* The caches are written and the pools and last_synced_block returned.
WriteAndReturn ==
    /\ pc = "write" /\ ~panicked
    /\ disk' = write_all(disk, pool_caches, 1)
    /\ ret' = [pools |-> flat_pools(pool_caches, 1), block |-> last_synced_block]
    /\ completed' = Append(completed, [cfg |-> cfg, head |-> head])
    /\ pc' = "done"
    /\ processed' = persist_processed(processed, { pool_caches[k].pool_type : k \in DOMAIN pool_caches })
    /\ UNCHANGED <<head, cfg, pool_caches, fully_synced, last_synced_block, end_block,
                   idx, runs, round_work, replays, panicked, unpopulated, io_failure, quietvars>>

SyncNext ==
    \/ AdvanceHead \/ StartRun \/ RoundStart \/ SyncProtocol \/ SkipProtocol
    \/ RoundEnd \/ LoopExit \/ WriteAndReturn

SpecSync == SyncInit /\ [][SyncNext]_vars

(***************************************************************************)
(* Claims on the driver.                                                   *)
(***************************************************************************)
Last(seq) == seq[Len(seq)]
\* The pools one run up to block B leaves for a pool type, from no cache file.
OneRunPools(pool_type, B, h) ==
    sync_protocol(read_cache_file([t \in PoolTypes |-> NoFile], pool_type),
                  resolve_start_block(read_cache_file([t \in PoolTypes |-> NoFile], pool_type), None),
                  B, h).cache.pools
\* Two runs have completed, from no cache file: the first up to B / 2, the
\* second up to B, with the same fetchers and every block up to B on the
\* chain (the same head) throughout.
ResumedAt(B) ==
    /\ pc = "done" /\ Len(completed) = 2 /\ runs = 2
    /\ completed[1].cfg = [fetchers |-> cfg.fetchers, start_block |-> None, end_block |-> Some(B \div 2)]
    /\ completed[2].cfg = [fetchers |-> cfg.fetchers, start_block |-> None, end_block |-> Some(B)]
    /\ completed[1].head = head
    /\ B <= head

\* C6: from an empty cache and a fixed chain history, syncing up to B / 2 in
\* one run and from B / 2 + 1 to B in a second run leaves the same pools, in
\* the same order and with identical records, as syncing up to B in one run.
C6_Resumable ==
    \A B \in 2 .. MaxBlock :
        ResumedAt(B) =>
            \A k \in DOMAIN pool_caches :
                pool_caches[k].pools = OneRunPools(pool_caches[k].pool_type, B, head)

StartAboveEnd(to_block) == is_some(cfg.start_block) /\ unwrap(cfg.start_block) > to_block

\* C7 as stated: with an explicit end block the driving loop is left only
\* with every cache's last_synced_block >= the target, whatever the cached
\* checkpoints and the start-block override.
C7_StopsAtTarget_AsStated ==
    (pc = "write" /\ is_some(cfg.end_block)) =>
        all_synced_to_target(pool_caches, unwrap(cfg.end_block))

\* C7 as amended: so it is when the start-block override is absent or not
\* above the target; with an override above the target no cache is advanced
\* and the loop is left with the caches as they were read.
C7_StopsAtTarget ==
    (pc = "write" /\ is_some(cfg.end_block)) =>
        IF StartAboveEnd(unwrap(cfg.end_block))
        THEN \A k \in DOMAIN pool_caches : pool_caches[k] = read_cache_file(disk, cfg.fetchers[k])
        ELSE all_synced_to_target(pool_caches, unwrap(cfg.end_block))

\* The loop has been left for target 3 with a start override of 2, by two
\* caches read with different checkpoints (one from a file at block 1, one
\* new), both synced in the round.
C7_Witness ==
    /\ pc = "write" /\ cfg.end_block = Some(3) /\ cfg.start_block = Some(2)
    /\ Len(pool_caches) = 2 /\ round_work = <<TRUE>>
    /\ disk["UniswapV3"] # NoFile /\ disk["UniswapV3"].last_synced_block = 1
    /\ disk["MerchantMoe"] = NoFile
    /\ all_synced_to_target(pool_caches, 3)

InRunNoEnd == pc \in {"loop", "for", "write", "done"} /\ ~is_some(cfg.end_block)
\* A round is followed by another only if it did work, the loop is left only
\* after a round without work, and is not left after a round with work.
RoundsWhileWork ==
    /\ \A k \in 1 .. Len(round_work) - 1 : round_work[k]
    /\ pc \in {"write", "done"} => (round_work # <<>> /\ ~Last(round_work))
    /\ (pc = "loop" /\ round_work # <<>> /\ Last(round_work)) => ~fully_synced
    /\ (pc = "loop" /\ round_work # <<>> /\ ~Last(round_work)) => fully_synced

\* C8 as stated: without an explicit end block, rounds are started as long
\* as the previous round did work, the loop is left after the first round
\* without work, and then every cache's last_synced_block is >= the head
\* observed in that round.
C8_RoundsUntilIdle_AsStated ==
    InRunNoEnd =>
        /\ RoundsWhileWork
        /\ pc = "write" => \A k \in DOMAIN pool_caches : pool_caches[k].last_synced_block >= end_block

\* C8 as amended: every cache's last_synced_block is then >= the observed
\* head, except a cache whose checkpoint is below a start-block override
\* that is above that head: it is skipped in every round.
C8_RoundsUntilIdle ==
    InRunNoEnd =>
        /\ RoundsWhileWork
        /\ pc = "write" =>
               \A k \in DOMAIN pool_caches :
                   \/ pool_caches[k].last_synced_block >= end_block
                   \/ StartAboveEnd(end_block) /\ pool_caches[k].last_synced_block < unwrap(cfg.start_block)

\* Without an end block, two rounds did work (the head moved in between)
\* and a third did none: the loop is left with both caches at the head.
C8_Witness ==
    /\ pc = "write" /\ cfg.end_block = None /\ cfg.start_block = None
    /\ round_work = <<TRUE, TRUE, FALSE>>
    /\ Len(pool_caches) = 2
    /\ \A k \in DOMAIN pool_caches : pool_caches[k].last_synced_block = head

\* C9: the block number returned by sync_pools is the end block resolved in
\* the run's rounds, also when no round did any work.
C9_ReturnsResolvedEnd ==
    pc = "done" => ret.block = end_block

FlagMeansEmpty(cache) ==
    /\ cache.is_initial_sync => cache.pools = <<>>
    /\ cache.last_synced_block > 0 => ~cache.is_initial_sync
\* The populate_liquidity calls of a round: cached pools, if there are
\* any, with is_initial_sync = false, then the new pools with true.
ReplayFlags ==
    \A j \in DOMAIN replays :
        IF j = 1 THEN replays[j].n > 0 => ~replays[j].is_initial_sync
        ELSE replays[j].is_initial_sync
FlagInv ==
    /\ \A k \in DOMAIN pool_caches : FlagMeansEmpty(pool_caches[k])
    /\ \A t \in PoolTypes : disk[t] # NoFile => FlagMeansEmpty(disk[t])
    /\ ReplayFlags
FlagStaysCleared ==
    /\ runs' = runs =>
           \A k \in DOMAIN pool_caches : ~pool_caches[k].is_initial_sync => ~pool_caches'[k].is_initial_sync
    /\ \A t \in PoolTypes :
           (disk[t] # NoFile /\ ~disk[t].is_initial_sync) => (disk'[t] # NoFile /\ ~disk'[t].is_initial_sync)

\* C10: logs are replayed on new pools with is_initial_sync = true and on a
\* non-empty collection of cached pools only with false: a cache whose flag
\* is true has no pools, the flag is false once the cache has completed a
\* round, and a flag that is false never becomes true again.
C10_InitialSyncFlag == []FlagInv /\ [][FlagStaysCleared]_vars

\* A round has replayed the logs on a cached pool with false and on a newly
\* discovered pool with true.
C10_Witness ==
    /\ replays = << [n |-> 1, is_initial_sync |-> FALSE], [n |-> 1, is_initial_sync |-> TRUE] >>
    /\ pc = "done" /\ runs = 2
    /\ \E k \in DOMAIN pool_caches : Len(pool_caches[k].pools) = 2 /\ ~pool_caches[k].is_initial_sync


Range(f) == { f[k] : k \in DOMAIN f }

\* The addresses a round's scan finds for the cache at idx.
found_addrs ==
    fetch_pool_addrs(resolve_start_block(pool_caches[idx], cfg.start_block),
                     end_block, pool_caches[idx].pool_type, head)

\* The loop body for a cache with start_block <= end_block; when addresses
\* are found, their bulk read may be given up on.
SyncProtocolOrEmpty ==
    /\ pc = "for" /\ ~panicked
    /\ idx <= Len(pool_caches)
    /\ needs_sync(resolve_start_block(pool_caches[idx], cfg.start_block), end_block)
    /\ \E exhausted \in BOOLEAN :
         /\ exhausted => found_addrs # <<>>
         /\ unpopulated' = IF exhausted THEN unpopulated \cup Range(found_addrs) ELSE unpopulated
         /\ \E r \in { sync_protocol_or_empty(pool_caches[idx],
                         resolve_start_block(pool_caches[idx], cfg.start_block), end_block, head,
                         exhausted) } :
              IF r.of /\ overflow_checks
              THEN /\ panicked' = TRUE
                   /\ UNCHANGED <<pool_caches, fully_synced, last_synced_block, idx, replays, round_work,
                                  processed>>
              ELSE /\ panicked' = FALSE
                   /\ processed' = mark_processed(processed, pool_caches[idx].pool_type,
                                       resolve_start_block(pool_caches[idx], cfg.start_block), end_block)
                   /\ pool_caches' = [pool_caches EXCEPT ![idx] = r.cache]
                   /\ fully_synced' = mark_work(fully_synced)
                   /\ last_synced_block' = end_block
                   /\ idx' = idx + 1
                   /\ replays' = r.replays
                   /\ round_work' = [round_work EXCEPT ![Len(round_work)] = TRUE]
    /\ UNCHANGED <<head, disk, cfg, pc, end_block, ret, runs, completed, io_failure, quietvars>>

\* sync_pools is called and read_cache_file(...).unwrap() meets an Err.
ReadFails ==
    \E f \in FetcherSets, sb \in OptBlocks, eb \in OptBlocks :
        /\ pc \in {"idle", "done"} \/ panicked
        /\ runs < MaxRuns
        /\ cfg' = [fetchers |-> f, start_block |-> sb, end_block |-> eb]
        /\ pool_caches' = <<>>
        /\ pc' = "load"
        /\ panicked' = TRUE
        /\ runs' = runs + 1
        /\ round_work' = <<>>
        /\ replays' = NoReplays
        /\ io_failure' = [kind |-> "load", run |-> runs + 1]
        /\ UNCHANGED <<head, disk, fully_synced, last_synced_block, end_block, idx, ret,
                       completed, unpopulated, processed, quietvars>>

\* The caches are written and write_cache_file(...).unwrap() meets an Err at
\* the k-th of them: the files before it are written, nothing is returned.
WriteFails ==
    \E k \in DOMAIN pool_caches :
        /\ pc = "write" /\ ~panicked
        /\ disk' = write_all(disk, SubSeq(pool_caches, 1, k - 1), 1)
        /\ panicked' = TRUE
        /\ io_failure' = [kind |-> "persist", run |-> runs]
        /\ processed' = persist_processed(processed, { pool_caches[j].pool_type : j \in 1 .. k - 1 })
        /\ UNCHANGED <<head, cfg, pc, pool_caches, fully_synced, last_synced_block, end_block,
                       idx, ret, runs, round_work, completed, replays, unpopulated, quietvars>>

\* The remote calls of a round: the scan, the bulk read, the replay on the
\* cached pools and the replay on the new pools.
RemoteCalls ==
    {"fetch_pool_addrs", "populate_pools", "populate_liquidity", "populate_liquidity (new pools)"}

\* Mutant: the Err is dropped and the run goes on.
expect_ignored(is_err) == FALSE
\* `.expect("... Exiting due to having inconclusive state")`: a panic on an Err.
expect(is_err) == is_err

\* One of the remote calls for the cache at idx returns an Err.  The memory
\* of the run is lost with the panic; the files are what remains.
RemoteFails ==
    /\ pc = "for" /\ ~panicked
    /\ idx <= Len(pool_caches)
    /\ needs_sync(resolve_start_block(pool_caches[idx], cfg.start_block), end_block)
    /\ \E call \in RemoteCalls :
         /\ call = "populate_liquidity (new pools)" => found_addrs # <<>>
         /\ io_failure' = [kind |-> call, run |-> runs]
         /\ panicked' = expect(TRUE)
    /\ UNCHANGED <<head, disk, cfg, pc, pool_caches, fully_synced, last_synced_block, end_block,
                   idx, ret, runs, round_work, completed, replays, unpopulated, processed, quietvars>>

FaultsNext ==
    \/ AdvanceHead \/ StartRun \/ RoundStart \/ SyncProtocolOrEmpty \/ SkipProtocol \/ RoundEnd \/ LoopExit
    \/ WriteAndReturn \/ ReadFails \/ WriteFails \/ RemoteFails

SpecFaults == SyncInit /\ [][FaultsNext]_vars

\* The block a pool was created in, and the addresses a cache holds.
CreatedAt(address) ==
    CHOOSE b \in DOMAIN ChainLogs : \E k \in DOMAIN ChainLogs[b] : ChainLogs[b][k] = CreationOf(address)
Held(cache) == { cache.pools[k].address : k \in DOMAIN cache.pools }

\* C16: an address whose bulk read was given up on is not lost: the cache of
\* its pool type holds it, or its checkpoint is still below the block the
\* pool was created in, so that the block is scanned again.
C16_UnpopulatedRescanned ==
    \A a \in unpopulated : \A k \in DOMAIN pool_caches :
        pool_caches[k].pool_type = CreationOf(a).pool_type =>
            a \in Held(pool_caches[k]) \/ pool_caches[k].last_synced_block < CreatedAt(a)

\* C17: a cache file that cannot be read or written is reported by the run
\* as a value: the run returns, and when it was the writing that failed, it
\* returns its pools and its last synced block.
C17_IoFailureReported ==
    (io_failure.kind \in {"load", "persist"} /\ io_failure.run = runs) =>
        /\ ~panicked /\ pc = "done"
        /\ io_failure.kind = "persist" =>
              ret.pools = flat_pools(pool_caches, 1) /\ ret.block = last_synced_block


(***************************************************************************)
(* Claims on the checkpoints and the pool collections of the caches.       *)
(***************************************************************************)
\* This step is the sync of the cache at idx over processed'.last.
SyncedStep == pc = "for" /\ runs' = runs /\ processed'.count # processed.count
Blocks(rg) == rg.start_block .. rg.to_block

RangeAboveCheckpoint ==
    SyncedStep =>
        /\ processed'.last.pool_type = pool_caches[idx].pool_type
        /\ processed'.last.start_block > pool_caches[idx].last_synced_block
        /\ processed'.last.start_block <= processed'.last.to_block
        /\ pool_caches'[idx].last_synced_block = processed'.last.to_block
        /\ pool_caches'[idx].last_synced_block > pool_caches[idx].last_synced_block
        /\ Blocks(processed'.last) \cap processed.mem[pool_caches[idx].pool_type] = {}
CheckpointsNeverDecrease ==
    /\ runs' = runs =>
          /\ DOMAIN pool_caches' = DOMAIN pool_caches
          /\ \A k \in DOMAIN pool_caches :
                 pool_caches'[k].last_synced_block >= pool_caches[k].last_synced_block
    /\ runs' # runs =>
          \A k \in DOMAIN pool_caches' :
              disk[pool_caches'[k].pool_type] # NoFile =>
                  pool_caches'[k].last_synced_block = disk[pool_caches'[k].pool_type].last_synced_block
    /\ \A t \in PoolTypes :
          disk[t] # NoFile =>
              disk'[t] # NoFile /\ disk'[t].last_synced_block >= disk[t].last_synced_block

\* C21: a sync of a cache is over a range that starts above the cache's
\* checkpoint and sets the checkpoint to the range's end; checkpoints never
\* decrease, in a run and from run to run through the files, and no block is
\* synced twice for a pool type, whatever overrides are configured.
C21_RangesAboveCheckpoint == [][RangeAboveCheckpoint /\ CheckpointsNeverDecrease]_vars

\* A second run with a start override of 1 on a cache at checkpoint 1 has
\* synced blocks 2 .. 3.
C21_Witness ==
    /\ runs = 2 /\ ~panicked /\ cfg.start_block = Some(1)
    /\ disk["UniswapV3"] # NoFile /\ disk["UniswapV3"].last_synced_block = 1
    /\ processed.last = [pool_type |-> "UniswapV3", start_block |-> 2, to_block |-> 3]
    /\ processed.mem["UniswapV3"] = {1, 2, 3}


\* C22: a sync of a cache that already holds pools starts at the block after
\* the cache's checkpoint, so every block from the old checkpoint to the new
\* one is in the range replayed on the cached pools, whatever start override
\* is configured.
C22_ResumesAtCheckpoint ==
    [][SyncedStep /\ pool_caches[idx].pools # <<>> =>
          /\ processed'.last.start_block = pool_caches[idx].last_synced_block + 1
          /\ (pool_caches[idx].last_synced_block + 1) .. pool_caches'[idx].last_synced_block
                 \subseteq Blocks(processed'.last)]_vars


(***************************************************************************)
(* Termination of a run.  sync_pools is sequential code: a step of the run *)
(* that can be taken is taken.                                             *)
(***************************************************************************)
\* sync_pools is in the loop or at the write of the caches.
InRun == pc \in {"loop", "for", "write"} /\ ~panicked
\* A step of the run: of SyncNext, all but AdvanceHead and StartRun.
RunStep == runs' = runs /\ head' = head
\* Weak fairness of the run's steps; one of them is enabled exactly when InRun
\* (every branch of the loop has its action).
SpecSyncFair == SpecSync /\ ([]<>(~InRun) \/ []<><<RunStep>>_vars)

InRunWithEnd == runs >= 1 /\ is_some(cfg.end_block)
AtMostTwoRounds ==
    InRunWithEnd =>
        /\ \A t \in PoolTypes : processed.count[t] <= 1
        /\ Len(round_work) <= 2

\* C23: with an explicit end block a run ends, whatever the cache files and
\* the start override: a protocol is synced in at most one round, there are
\* at most two rounds (the second without work), and a run that has started
\* returns (or has panicked in a replay).
C23_RunTerminates ==
    /\ []AtMostTwoRounds
    /\ (InRunWithEnd /\ pc = "loop") ~> (pc = "done" \/ panicked)

\* A second run with two protocols, a start override and an explicit end
\* block has returned: one protocol was synced, the other was at the end
\* block already.
C23_Witness ==
    /\ InRunWithEnd /\ pc = "done" /\ ~panicked /\ runs = 2
    /\ is_some(cfg.start_block)
    /\ Len(pool_caches) = 2 /\ round_work = <<TRUE>>
    /\ \E t, u \in PoolTypes : processed.count[t] = 1 /\ processed.count[u] = 0


\* The logs of the range folded once, in order, into one pool record.
FoldedOnce(pool_type, p, rg, is_initial_sync, h) ==
    replay_from(pool_type, [pool |-> p, of |-> FALSE],
                LogsIn(rg.start_block, Min(rg.to_block, h)), 1, is_initial_sync).pool
AddressesOf(pools) == { pools[k].address : k \in DOMAIN pools }

\* The sync of the cache `old` into `new` over the range rg replayed each pool
\* once: the cached pools as they were in the cache, with the cache's flag,
\* the new pools from their bulk read, with the flag set.
EachPoolReplayedOnce(old, new, rg, h) ==
    /\ Len(new.pools) >= Len(old.pools)
    /\ \A k \in DOMAIN new.pools :
           IF k <= Len(old.pools)
           THEN new.pools[k] = FoldedOnce(old.pool_type, old.pools[k], rg, old.is_initial_sync, h)
           ELSE /\ new.pools[k] = FoldedOnce(old.pool_type,
                                      BulkRead(old.pool_type, new.pools[k].address, h), rg, TRUE, h)
                /\ new.pools[k].address \notin AddressesOf(old.pools)
    /\ replays' = << [n |-> Len(old.pools), is_initial_sync |-> old.is_initial_sync] >>
                  \o (IF Len(new.pools) > Len(old.pools)
                      THEN << [n |-> Len(new.pools) - Len(old.pools), is_initial_sync |-> TRUE] >>
                      ELSE <<>>)

\* C24: in a round the logs of the range are folded at most once into a pool:
\* the cached pools are replayed before the new pools are merged, the new
\* pools are replayed on their own, and no pool is replayed both as a cached
\* and as a new pool.
C24_FoldedAtMostOnce ==
    [][SyncedStep => EachPoolReplayedOnce(pool_caches[idx], pool_caches'[idx], processed'.last, head)]_vars

\* A second run has replayed block 2 on the cached pool X (its mint is in the
\* tick map) and, apart from it, on the new pool Z.
C24_Witness ==
    /\ runs = 2 /\ ~panicked /\ pc = "done"
    /\ processed.last = [pool_type |-> "UniswapV3", start_block |-> 2, to_block |-> 2]
    /\ replays = << [n |-> 1, is_initial_sync |-> FALSE], [n |-> 1, is_initial_sync |-> TRUE] >>
    /\ \E k \in DOMAIN pool_caches :
           /\ Len(pool_caches[k].pools) = 2
           /\ pool_caches[k].pools[1].address = "X" /\ pool_caches[k].pools[1].ticks # <<>>
           /\ pool_caches[k].pools[2].address = "Z"


\* The pools of `before` are, by address and position, the first of `after`.
PrefixByAddress(before, after) ==
    /\ Len(before) <= Len(after)
    /\ \A k \in DOMAIN before : after[k].address = before[k].address

\* C25: the pool collection of a cache is append-only: a round adds new pools
\* after the cached ones and removes or moves none, so the collection before
\* a round is a prefix, by address and position, of the collection after it.
C25_AppendOnly ==
    [][runs' = runs =>
          /\ DOMAIN pool_caches' = DOMAIN pool_caches
          /\ \A k \in DOMAIN pool_caches :
                 PrefixByAddress(pool_caches[k].pools, pool_caches'[k].pools)]_vars

\* A round of a second run has appended the new pool Z to the cached pool X;
\* the cache file still holds X alone.
C25_Witness ==
    /\ runs = 2 /\ ~panicked /\ pc = "for"
    /\ disk["UniswapV3"] # NoFile /\ Len(disk["UniswapV3"].pools) = 1
    /\ disk["UniswapV3"].pools[1].address = "X"
    /\ \E k \in DOMAIN pool_caches :
           /\ pool_caches[k].pool_type = "UniswapV3" /\ Len(pool_caches[k].pools) = 2
           /\ pool_caches[k].pools[1].address = "X" /\ pool_caches[k].pools[2].address = "Z"


NoDuplicates(pools) ==
    \A j, k \in DOMAIN pools : pools[j].address = pools[k].address => j = k

\* C26: no cache holds two pools with the same address, in memory or in its
\* file, after any number of rounds and of runs on the same files (the scan
\* returns each created pool once and a pool is created in one block).
C26_NoDuplicatePools ==
    /\ \A k \in DOMAIN pool_caches : NoDuplicates(pool_caches[k].pools)
    /\ \A t \in PoolTypes : disk[t] # NoFile => NoDuplicates(disk[t].pools)

\* Two runs, the second with a start override at or below the checkpoint the
\* first left, have written a file with the two pools X and Z.
C26_Witness ==
    /\ runs = 2 /\ pc = "done" /\ Len(completed) = 2
    /\ is_some(cfg.start_block) /\ is_some(completed[1].cfg.end_block)
    /\ unwrap(cfg.start_block) <= unwrap(completed[1].cfg.end_block)
    /\ processed.count["UniswapV3"] = 1
    /\ disk["UniswapV3"] # NoFile
    /\ AddressesOf(disk["UniswapV3"].pools) = {"X", "Z"} /\ Len(disk["UniswapV3"].pools) = 2


\* The loop body is at a cache whose start block is above the round's end.
AtCaughtUp ==
    /\ pc = "for" /\ ~panicked /\ idx <= Len(pool_caches)
    /\ resolve_start_block(pool_caches[idx], cfg.start_block) > end_block

\* C27: a protocol whose start block is above the round's end block is
\* skipped: its cache (pools, checkpoint, initial-sync flag) is unchanged, no
\* scan, bulk read or replay is made for it, and the step leaves fully_synced
\* as it was, so the protocol does not cause another round by itself.
C27_SkipChangesNothing ==
    [][AtCaughtUp =>
          /\ pool_caches' = pool_caches
          /\ fully_synced' = fully_synced
          /\ last_synced_block' = last_synced_block
          /\ replays' = replays /\ processed' = processed /\ round_work' = round_work
          /\ disk' = disk /\ panicked' = panicked
          /\ idx' = idx + 1 /\ pc' = pc]_vars

\* In a second run the first of two caches, with pools and a checkpoint at
\* the round's end block, has been skipped.
C27_Witness ==
    /\ runs = 2 /\ pc = "for" /\ ~panicked /\ idx = 2 /\ Len(pool_caches) = 2
    /\ round_work = <<FALSE>> /\ fully_synced
    /\ pool_caches[1].pools # <<>> /\ pool_caches[1].last_synced_block >= end_block
    /\ pool_caches[1] = disk[pool_caches[1].pool_type]
    /\ replays = NoReplays


\* A remote call of the current run has returned an Err.
RemoteFailed == io_failure.kind \in RemoteCalls /\ io_failure.run = runs

\* C28: when the scan, the bulk read or one of the two replays fails in a
\* round, the run panics: it returns nothing and writes no cache file, so the
\* files stay as they were when the run started (the files are written only
\* after the loop).
C28_RemoteFailureIsFatal ==
    [][/\ RemoteFailed' => panicked' /\ disk' = disk /\ ret' = ret /\ completed' = completed
       /\ disk' # disk => pc = "write" /\ ~RemoteFailed]_vars

\* In a second run the first protocol has been synced and a remote call for
\* the second has failed: the first protocol's file is as the first run
\* wrote it, behind the cache in memory.
C28_Witness ==
    /\ RemoteFailed /\ panicked /\ runs = 2 /\ pc = "for" /\ idx = 2
    /\ disk[pool_caches[1].pool_type] # NoFile
    /\ disk[pool_caches[1].pool_type].last_synced_block < pool_caches[1].last_synced_block
    /\ disk[pool_caches[1].pool_type].pools # <<>>


(***************************************************************************)
(* Mints and burns of positions: every burn of a range takes liquidity     *)
(* that earlier mints of the same range have put there.                    *)
(***************************************************************************)
\* Number of logs replayed in these behaviours.
MaxCovered == 4
\* The ranges with lower # upper.
CoveredRanges == { r \in Ranges : r[1] # r[2] }
\* History carried by last_log: the liquidity minted and not yet burned per
\* range, and whether the arithmetic of a replay has overflowed so far.
Minted(log) == IF "minted" \in DOMAIN log THEN log.minted ELSE [r \in CoveredRanges |-> 0]
Wrapped(log) == "wrapped" \in DOMAIN log /\ log.wrapped

CoveredReplay(log, minted) ==
    /\ ~panicked
    /\ nEvents < MaxCovered
    /\ TickAligned(pool, log)
    /\ \E r \in { process_tick_data(pool, log, initial_sync) } :
           /\ IF r.of /\ overflow_checks
              THEN panicked' = TRUE /\ pool' = pool
              ELSE panicked' = FALSE /\ pool' = r.pool
           /\ last_log' = log @@ [minted |-> minted, wrapped |-> (Wrapped(last_log) \/ r.of)]
    /\ nEvents' = nEvents + 1
    /\ UNCHANGED <<overflow_checks, initial_sync>>

CoveredMint ==
    /\ \E r \in CoveredRanges, a \in Amounts :
           CoveredReplay(MintLog(r[1], r[2], a), [Minted(last_log) EXCEPT ![r] = @ + a])
    /\ UNCHANGED <<v2vars, syncvars, buildvars, histvars, buildervars>>

CoveredBurn ==
    /\ \E r \in CoveredRanges, a \in Amounts :
           /\ a <= Minted(last_log)[r]
           /\ CoveredReplay(BurnLog(r[1], r[2], a), [Minted(last_log) EXCEPT ![r] = @ - a])
    /\ UNCHANGED <<v2vars, syncvars, buildvars, histvars, buildervars>>

CoveredNext == CoveredMint \/ CoveredBurn

SpecCovered == V3Init /\ [][CoveredNext]_vars

\* The sum of liquidity_net over the entries of a tick map.
RECURSIVE SumNet(_, _)
SumNet(ticks, S) ==
    IF S = {} THEN 0
    ELSE LET t == CHOOSE x \in S : TRUE
         IN  ticks[t].liquidity_net + SumNet(ticks, S \ {t})
NetSum(p) == SumNet(p.ticks, DOMAIN p.ticks)

\* An entry that this step removes had, after the burn's update, a net
\* liquidity of zero.
RemovedAtZero ==
    \A t \in DOMAIN pool.ticks \ DOMAIN pool'.ticks :
        /\ last_log'.kind = "Burn"
        /\ t \in {last_log'.tickLower, last_log'.tickUpper}
        /\ t = last_log'.tickLower => pool.ticks[t].liquidity_net - last_log'.amount = 0
        /\ t = last_log'.tickUpper => pool.ticks[t].liquidity_net + last_log'.amount = 0

\* C31 as stated: from an empty tick map, after every mint or burn of a
\* sequence in which the burns are covered, the net liquidity of the entries
\* sums to zero, and an entry is removed only with a net liquidity of zero.
C31_NetSumsToZero_AsStated ==
    /\ [](NetSum(pool) = 0)
    /\ [][RemovedAtZero]_vars

\* C31: the same, for the sequences in which no replay has overflowed the
\* gross (u128) or net (i128) liquidity of a tick.
C31_NetSumsToZero ==
    /\ [](~Wrapped(last_log) => NetSum(pool) = 0)
    /\ [][~Wrapped(last_log') => RemovedAtZero]_vars

\* After two mints over ranges that share tick -2, a burn has removed the
\* entry of tick -256; the entries left have net liquidity 2 and -2.
C31_Witness ==
    /\ ~panicked /\ ~Wrapped(last_log) /\ nEvents = 3
    /\ last_log.kind = "Burn" /\ last_log.tickLower = -256 /\ last_log.amount = 1
    /\ DOMAIN pool.ticks = {-2, 2}
    /\ pool.ticks[-2].liquidity_net = 2 /\ pool.ticks[2].liquidity_net = -2


(***************************************************************************)
(* Termination of build_pools.  Each call of populate_pool_data returns    *)
(* and the loop is sequential code: a step that can be taken is taken.     *)
(***************************************************************************)
SpecBuildFair == SpecBuild /\ WF_vars(BuildNext)

Succeeded(o) == o.kind = "decoded"
AttemptsBounded ==
    /\ Len(outcomes) <= MAX_RETRIES + 1
    /\ \A k \in DOMAIN outcomes : outcomes[k].addresses = addresses
    /\ \A k \in DOMAIN outcomes : Succeeded(outcomes[k]) =>
           /\ k = Len(outcomes) /\ bp_pc = "returned"
           /\ bp_ret = [ok |-> TRUE,
                        pools |-> populate_pool_data(bp_type, outcomes[k]).pools]
    /\ bp_pc = "returned" <=>
           /\ outcomes # <<>>
           /\ Succeeded(Last(outcomes)) \/ Len(outcomes) = MAX_RETRIES + 1

\* C32: build_pools returns, when every bulk read returns: with the pools of
\* the first call that succeeds and no call after it, after at most
\* MAX_RETRIES + 1 = 6 calls, each given the address list of build_pools.
C32_BuildPoolsTerminates ==
    /\ []AttemptsBounded
    /\ [][bp_pc # "returned"]_vars
    /\ <>(bp_pc = "returned")

\* build_pools has returned the two pools of its fourth call, the first to
\* succeed, each call having been given both addresses.
C32_Witness ==
    /\ bp_pc = "returned" /\ Len(outcomes) = 4 /\ addresses = <<1, 2>>
    /\ \A k \in 1 .. 3 : ~Succeeded(outcomes[k]) /\ outcomes[k].addresses = <<1, 2>>
    /\ Succeeded(outcomes[4]) /\ outcomes[4].addresses = <<1, 2>>
    /\ bp_ret.ok /\ Len(bp_ret.pools) = 2

\* ---------------------------------------------------------------------------
\* The delays of build_pools

\* The base delays before the retries 0 .. 4, as the specification lists them.
BaseDelays == <<1000, 2000, 4000, 8000, 16000>>

\* A step in which a call of populate_pool_data came back with an error.
FailedAttempt ==
    /\ Len(outcomes') = Len(outcomes) + 1
    /\ ~Succeeded(Last(outcomes'))

\* What the loop holds between two calls: the base delay is
\* INITIAL_BACKOFF * 2^retry_count and the last wait, if there was one, was
\* the base delay of the retry before plus a jitter of 0 .. 100.
DelaysSoFar ==
    /\ retry_count \in 0 .. MAX_RETRIES
    /\ backoff = INITIAL_BACKOFF * 2^retry_count
    /\ retry_count = 0 => sleep_duration = 0
    /\ retry_count > 0 =>
           /\ BaseDelays[retry_count] = INITIAL_BACKOFF * 2^(retry_count - 1)
           /\ sleep_duration \in BaseDelays[retry_count] .. BaseDelays[retry_count] + 100

\* A failed attempt is followed by a wait of the base delay plus jitter and
\* the doubling of the base delay, except for the last one, which returns
\* without a wait; no step reduces the base delay.
DelayStep ==
    /\ backoff' >= backoff
    /\ FailedAttempt =>
           IF retry_count < MAX_RETRIES
           THEN /\ sleep_duration' \in BaseDelays[retry_count + 1] .. BaseDelays[retry_count + 1] + 100
                /\ sleep_duration' - backoff \in 0 .. 100
                /\ retry_count' = retry_count + 1
                /\ backoff' = 2 * backoff
                /\ bp_pc' = "call"
           ELSE /\ UNCHANGED <<sleep_duration, retry_count, backoff>>
                /\ bp_pc' = "returned"
    /\ ~FailedAttempt => UNCHANGED <<sleep_duration, retry_count, backoff>>

\* C33: before its k-th retry (k = 0 .. 4) build_pools waits
\* INITIAL_BACKOFF * 2^k milliseconds plus a jitter of 0 .. 100, that is a
\* delay in [1000, 1100], [2000, 2100], [4000, 4100], [8000, 8100],
\* [16000, 16100]; the base delay doubles with every retry and is never
\* reduced, and the last failed attempt is followed by no wait.
C33_BackoffDelays ==
    /\ []DelaysSoFar
    /\ [][DelayStep]_vars

\* All five waits happened, the last one with the largest jitter, and the
\* sixth attempt failed and returned at once.
C33_Witness ==
    /\ bp_pc = "returned"
    /\ Len(outcomes) = MAX_RETRIES + 1
    /\ \A k \in DOMAIN outcomes : ~Succeeded(outcomes[k])
    /\ retry_count = MAX_RETRIES
    /\ sleep_duration = 16100
    /\ backoff = 32000

\* ---------------------------------------------------------------------------
\* Failed symbol reads

\* The pools of a decoded bulk read before any symbol() call.
Pushed(o) == push_valid(bp_type, o.array, 1)

\* The returned pools are the pools pushed, each with the name of a token
\* empty exactly when its symbol() read failed and nothing else touched.
NamesFollowReads(o, pools) ==
    /\ Len(pools) = Len(Pushed(o))
    /\ \A k \in DOMAIN pools :
        /\ pools[k].token0_name = "" <=> ~o.symbols[k].symbol0
        /\ pools[k].token1_name = "" <=> ~o.symbols[k].symbol1
        /\ [pools[k] EXCEPT !.token0_name = "", !.token1_name = ""] = Pushed(o)[k]

\* C34: a failed symbol read for token0 or token1 of a populated pool leaves
\* that token's name empty and keeps the pool in the result; the call of
\* build_pools returns Ok with all pools pushed, no further attempt follows
\* and no retry is counted for it, and the other token's name and the other
\* pools are what their own reads make them.
C34_SymbolFailureKeepsPool ==
    \A k \in DOMAIN outcomes : outcomes[k].kind = "decoded" =>
        /\ k = Len(outcomes)
        /\ retry_count = k - 1
        /\ bp_pc = "returned"
        /\ bp_ret.ok
        /\ NamesFollowReads(outcomes[k], bp_ret.pools)

\* The first attempt pushed two pools; the token0 read of the first failed
\* and every other read answered.
C34_Witness ==
    /\ bp_pc = "returned"
    /\ Len(outcomes) = 1 /\ retry_count = 0
    /\ outcomes[1].kind = "decoded"
    /\ Len(bp_ret.pools) = 2
    /\ ~outcomes[1].symbols[1].symbol0 /\ outcomes[1].symbols[1].symbol1
    /\ outcomes[1].symbols[2].symbol0 /\ outcomes[1].symbols[2].symbol1
    /\ bp_ret.pools[1].token0_name = "" /\ bp_ret.pools[1].token1_name = "SYM"
    /\ bp_ret.pools[2].token0_name = "SYM" /\ bp_ret.pools[2].token1_name = "SYM"

====
